---- MODULE Spec2Model ----
(***************************************************************************)
(* Half-edge connectivity kernel (src/src/vodk/geom/halfedge.rs).          *)
(*                                                                         *)
(* Handles are the raw `handle` values of Id<T>: 0 is the sentinel, a      *)
(* record with handle h lives at array position h (1-based sequences).     *)
(* A kernel value is a record [edges, vertices, faces] of sequences.       *)
(* Every operation is an operator from a kernel (and arguments) to an      *)
(* outcome record [k, out, ...]: k is the kernel as the call leaves it,    *)
(* out is "ok" (returned), "panic" (a failed assert!/index check/panic!)   *)
(* or "hang" (a loop that never exits).                                    *)
(***************************************************************************)
EXTENDS Integers, Sequences, FiniteSets, TLC

VARIABLES edges, vertices, faces, pre, last, nops, used, made, geo

vars == <<edges, vertices, faces, pre, last, nops, used, made, geo>>

\* ------------------------------------------------------------------ bounds
\* vertices and indices the buffers hold before a builder is made over them
MaxHeld == 1
\* vertices a builder takes in all, those held before included
MaxVertices == 3
\* triangles a builder takes in all, index triples held before included
MaxTriangles == 2
\* calls made on one kernel after construction
MaxOps == 3
\* no call is started that would grow the half-edge array beyond this length
MaxEdges == 14
\* add_hole is called with n_vertices in 0..MaxHole
MaxHole == 3

\* from_loop asserts n_vertices >= 3; test_from_loop covers range(3, 10)
MinLoop == 3
TestLoops == 9
\* from_loop is called with n_vertices in MinLoop..MaxLoop
MaxLoop == 11
\* count_edges_around_face panics once its counter exceeds this
CountLimit == 10

\* ------------------------------------------------------------------ handles
\* pub type Index = u16: arithmetic on Index wraps at 2^16
Index(x) == x % 65536

no_edge == 0
no_face == 0
no_vertex == 0

is_valid(id) == id # 0

edge_id(index) == Index(index + 1)
face_id(index) == Index(index + 1)
vertex_id(index) == Index(index + 1)

\* A modulo that behaves properly with negative values; Rust's % truncates
\* toward zero, so v % m is negative for negative v.
RustRem(v, m) == IF v >= 0 THEN v % m ELSE 0 - ((0 - v) % m)
modulo(v, m) == RustRem(RustRem(v, m) + m, m)

\* ------------------------------------------------------------------ storage
Kernel == [edges |-> edges, vertices |-> vertices, faces |-> faces]

EmptyKernel == [edges |-> <<>>, vertices |-> <<>>, faces |-> <<>>]

\* The accessors assert id.is_valid() and index the Vec (bounds-checked):
\* they return a record exactly when the handle is in 1..len.
EdgeOk(k, id) == is_valid(id) /\ id <= Len(k.edges)
FaceOk(k, id) == is_valid(id) /\ id <= Len(k.faces)
VertexOk(k, id) == is_valid(id) /\ id <= Len(k.vertices)

edge(k, id) == k.edges[id]
face(k, id) == k.faces[id]
vertex(k, id) == k.vertices[id]

first_face == 1

\* A call of an accessor, as the caller sees it: [k, out]. The accessors take
\* &self: they panic (failed assert!, or index out of bounds) or return the
\* record, and the kernel is what it was.
\* a vertex() without the assert that clamps the index into the array
vertex_call_clamps(k, id) ==
    IF Len(k.vertices) = 0 THEN [k |-> k, out |-> "panic"]
    ELSE [k |-> k, out |-> "ok"]

vertex_call(k, id) ==
    IF ~is_valid(id) THEN [k |-> k, out |-> "panic"]
    ELSE IF ~(id - 1 < Len(k.vertices)) THEN [k |-> k, out |-> "panic"]
    ELSE [k |-> k, out |-> "ok"]

face_call(k, id) ==
    IF ~is_valid(id) THEN [k |-> k, out |-> "panic"]
    ELSE IF ~(id - 1 < Len(k.faces)) THEN [k |-> k, out |-> "panic"]
    ELSE [k |-> k, out |-> "ok"]

edge_call(k, id) ==
    IF ~is_valid(id) THEN [k |-> k, out |-> "panic"]
    ELSE IF ~(id - 1 < Len(k.edges)) THEN [k |-> k, out |-> "panic"]
    ELSE [k |-> k, out |-> "ok"]

AccessorCall(kind, k, id) ==
    CASE kind = "vertex" -> vertex_call(k, id)
      [] kind = "edge" -> edge_call(k, id)
      [] kind = "face" -> face_call(k, id)

\* the array an accessor of a kind indexes
ArrayOf(kind, k) ==
    CASE kind = "vertex" -> k.vertices
      [] kind = "edge" -> k.edges
      [] kind = "face" -> k.faces

\* ------------------------------------------------------------------ id ranges
\* vertex_ids / edge_ids / face_ids: an iterator is [current, stop]
\* a vertex_ids whose stop is the array length, not one past it
vertex_ids_stops_at_len(k) == [current |-> 1, stop |-> Index(Len(k.vertices))]

vertex_ids(k) == [current |-> 1, stop |-> Index(Index(Len(k.vertices)) + 1)]
edge_ids(k) == [current |-> 1, stop |-> Index(Index(Len(k.edges)) + 1)]
face_ids(k) == [current |-> 1, stop |-> Index(Index(Len(k.faces)) + 1)]

\* The three next methods: [some, val, it]
VertexIdIterator_next(it) ==
    IF it.current = it.stop THEN [some |-> FALSE, val |-> no_vertex, it |-> it]
    ELSE [some |-> TRUE, val |-> Index(Index(it.current + 1) + 65536 - 1),
          it |-> [it EXCEPT !.current = Index(it.current + 1)]]

EdgeIdIterator_next(it) ==
    IF it.current = it.stop THEN [some |-> FALSE, val |-> no_edge, it |-> it]
    ELSE [some |-> TRUE, val |-> Index(Index(it.current + 1) + 65536 - 1),
          it |-> [it EXCEPT !.current = Index(it.current + 1)]]

FaceIdIterator_next(it) ==
    IF it.current = it.stop THEN [some |-> FALSE, val |-> no_face, it |-> it]
    ELSE [some |-> TRUE, val |-> Index(Index(it.current + 1) + 65536 - 1),
          it |-> [it EXCEPT !.current = Index(it.current + 1)]]

IdIterator_next(kind, it) ==
    CASE kind = "vertex" -> VertexIdIterator_next(it)
      [] kind = "edge" -> EdgeIdIterator_next(it)
      [] kind = "face" -> FaceIdIterator_next(it)

\* The items a for-loop over an id iterator sees and the iterator it leaves:
\* [items, it]. current counts up modulo 2^16, so it meets stop.
RECURSIVE DrainIds(_, _, _)
DrainIds(kind, it, acc) ==
    LET s == IdIterator_next(kind, it) IN
    IF ~s.some THEN [items |-> acc, it |-> s.it]
    ELSE DrainIds(kind, s.it, Append(acc, s.val))

\* ------------------------------------------------------------------ face walk
\* FaceEdgeIterator::next. The iterator is [current_edge, last_edge, done];
\* the step is [out, some, val, it]: out = "panic" when kernel.edge() fails.
\* a next that ends the walk on reaching last_edge, before yielding it
FaceEdgeIterator_next_stops_early(k, it) ==
    IF it.done \/ it.current_edge = it.last_edge
    THEN [out |-> "ok", some |-> FALSE, val |-> no_edge, it |-> it]
    ELSE IF ~EdgeOk(k, it.current_edge)
    THEN [out |-> "panic", some |-> FALSE, val |-> no_edge, it |-> it]
    ELSE [out |-> "ok", some |-> TRUE, val |-> it.current_edge,
          it |-> [current_edge |-> edge(k, it.current_edge).next,
                  last_edge |-> it.last_edge,
                  done |-> FALSE]]

FaceEdgeIterator_next(k, it) ==
    IF it.done
    THEN [out |-> "ok", some |-> FALSE, val |-> no_edge, it |-> it]
    ELSE IF ~EdgeOk(k, it.current_edge)
    THEN [out |-> "panic", some |-> FALSE, val |-> no_edge, it |-> it]
    ELSE [out |-> "ok", some |-> TRUE, val |-> it.current_edge,
          it |-> [current_edge |-> edge(k, it.current_edge).next,
                  last_edge |-> it.last_edge,
                  done |-> (it.current_edge = it.last_edge)]]

walk_edges_around_face(k, id) ==
    [current_edge |-> face(k, id).first_edge,
     last_edge |-> edge(k, face(k, id).first_edge).prev,
     done |-> FALSE]

\* walk_edges_around_face panics when face(id) or edge(first_edge) fails
WalkOk(k, id) == FaceOk(k, id) /\ EdgeOk(k, face(k, id).first_edge)

\* The items a for-loop over the iterator sees: [out, items]. A walk that has
\* yielded more items than there are half-edges without reaching last_edge
\* repeats a half-edge it has left behind and so never reaches it: "hang".
RECURSIVE Drain(_, _, _, _)
Drain(k, it, acc, fuel) ==
    LET s == FaceEdgeIterator_next(k, it) IN
    IF s.out = "panic" THEN [out |-> "panic", items |-> acc]
    ELSE IF ~s.some THEN [out |-> "ok", items |-> acc]
    ELSE IF fuel = 0 THEN [out |-> "hang", items |-> acc]
    ELSE Drain(k, s.it, Append(acc, s.val), fuel - 1)

WalkFace(k, id) ==
    IF ~WalkOk(k, id) THEN [out |-> "panic", items |-> <<>>]
    ELSE Drain(k, walk_edges_around_face(k, id), <<>>, Len(k.edges))

\* ------------------------------------------------------------------ reverse walk
\* a reverse next that steps to next, as the forward iterator does
ReverseFaceEdgeIterator_next_steps_forward(k, it) ==
    IF it.done
    THEN [out |-> "ok", some |-> FALSE, val |-> no_edge, it |-> it]
    ELSE IF ~EdgeOk(k, it.current_edge)
    THEN [out |-> "panic", some |-> FALSE, val |-> no_edge, it |-> it]
    ELSE [out |-> "ok", some |-> TRUE, val |-> it.current_edge,
          it |-> [current_edge |-> edge(k, it.current_edge).next,
                  last_edge |-> it.last_edge,
                  done |-> (it.current_edge = it.last_edge)]]

\* ReverseFaceEdgeIterator::next: as FaceEdgeIterator::next, stepping to prev.
ReverseFaceEdgeIterator_next(k, it) ==
    IF it.done
    THEN [out |-> "ok", some |-> FALSE, val |-> no_edge, it |-> it]
    ELSE IF ~EdgeOk(k, it.current_edge)
    THEN [out |-> "panic", some |-> FALSE, val |-> no_edge, it |-> it]
    ELSE [out |-> "ok", some |-> TRUE, val |-> it.current_edge,
          it |-> [current_edge |-> edge(k, it.current_edge).prev,
                  last_edge |-> it.last_edge,
                  done |-> (it.current_edge = it.last_edge)]]

\* the walk starts at first_edge and is to end at first_edge.next
walk_edges_around_face_reverse(k, id) ==
    [current_edge |-> face(k, id).first_edge,
     last_edge |-> edge(k, face(k, id).first_edge).next,
     done |-> FALSE]

\* The items a for-loop over the reverse iterator sees: [out, items], with
\* "hang" as in Drain.
RECURSIVE DrainReverse(_, _, _, _)
DrainReverse(k, it, acc, fuel) ==
    LET s == ReverseFaceEdgeIterator_next(k, it) IN
    IF s.out = "panic" THEN [out |-> "panic", items |-> acc]
    ELSE IF ~s.some THEN [out |-> "ok", items |-> acc]
    ELSE IF fuel = 0 THEN [out |-> "hang", items |-> acc]
    ELSE DrainReverse(k, s.it, Append(acc, s.val), fuel - 1)

WalkFaceReverse(k, id) ==
    IF ~WalkOk(k, id) THEN [out |-> "panic", items |-> <<>>]
    ELSE DrainReverse(k, walk_edges_around_face_reverse(k, id), <<>>, Len(k.edges))

\* ------------------------------------------------------------------ asserts
\* TRUE iff assert_edge_invariants(id) returns (no assert_eq! and no accessor
\* fails)
assert_edge_invariants(k, id) ==
    /\ EdgeOk(k, id)
    /\ EdgeOk(k, edge(k, id).opposite)
    /\ edge(k, edge(k, id).opposite).opposite = id
    /\ EdgeOk(k, edge(k, id).next)
    /\ edge(k, edge(k, id).next).prev = id
    /\ EdgeOk(k, edge(k, id).prev)
    /\ edge(k, edge(k, id).prev).next = id
    /\ EdgeOk(k, edge(k, edge(k, id).opposite).next)
    /\ edge(k, id).vertex = edge(k, edge(k, edge(k, id).opposite).next).vertex
    /\ edge(k, id).face = edge(k, edge(k, id).next).face
    /\ edge(k, id).face = edge(k, edge(k, id).prev).face

\* assert_face_invariants: the for-loop takes an item, then asserts on it.
RECURSIVE AssertWalk(_, _, _)
AssertWalk(k, it, fuel) ==
    LET s == FaceEdgeIterator_next(k, it) IN
    IF s.out = "panic" THEN "panic"
    ELSE IF ~s.some THEN "ok"
    ELSE IF ~assert_edge_invariants(k, s.val) THEN "panic"
    ELSE IF fuel = 0 THEN "hang"
    ELSE AssertWalk(k, s.it, fuel - 1)

assert_face_invariants(k, id) ==
    IF ~WalkOk(k, id) THEN "panic"
    ELSE AssertWalk(k, walk_edges_around_face(k, id), Len(k.edges))

\* ------------------------------------------------------------------ counting
\* count_edges_around_face: [out, count]; the loop panics when count exceeds
\* CountLimit, so it always ends.
RECURSIVE CountLoop(_, _, _, _)
CountLoop(k, it, stop, count) ==
    IF it = stop THEN [out |-> "ok", count |-> count]
    ELSE IF ~EdgeOk(k, it) THEN [out |-> "panic", count |-> count + 1]
    ELSE IF count + 1 > CountLimit THEN [out |-> "panic", count |-> count + 1]
    ELSE CountLoop(k, edge(k, it).next, stop, count + 1)

\* the counter started at 0 instead of 1
count_from_zero(k, id) ==
    IF ~WalkOk(k, id) THEN [out |-> "panic", count |-> 0]
    ELSE CountLoop(k, face(k, id).first_edge,
                   edge(k, face(k, id).first_edge).prev, 0)

count_edges_around_face(k, id) ==
    IF ~WalkOk(k, id) THEN [out |-> "panic", count |-> 0]
    ELSE CountLoop(k, face(k, id).first_edge,
                   edge(k, face(k, id).first_edge).prev, 1)

\* ------------------------------------------------------------------ add_loop
\* The n half-edges of face1's ring, pushed by the first for-loop (i0 = i).
Ring1(n, face1, edge_offset, vertex_offset) ==
    [i \in 1..n |->
        LET i0 == i - 1 IN
        [vertex |-> vertex_id(Index(vertex_offset + i0)),
         opposite |-> edge_id(Index(edge_offset + n * 2 - i0 - 1)),
         face |-> face1,
         next |-> edge_id(Index(edge_offset + Index(modulo(i0 + 1, n)))),
         prev |-> edge_id(Index(edge_offset + Index(modulo(i0 - 1, n))))]]

\* The n half-edges of face2's ring, pushed by the second for-loop.
Ring2(n, face2, edge_offset, vertex_offset) ==
    [i \in 1..n |->
        LET i0 == i - 1
            inv_i == Index(n - i0 - 1)
        IN
        [vertex |-> vertex_id(Index(vertex_offset + (Index(inv_i + 1) % n))),
         opposite |-> edge_id(Index(edge_offset + inv_i)),
         face |-> face2,
         next |-> edge_id(Index(edge_offset + n + Index(modulo(i0 + 1, n)))),
         prev |-> edge_id(Index(edge_offset + n + Index(modulo(i0 - 1, n))))]]

\* What add_loop returns: the two IdRanges, computed from the lengths after
\* the pushes.
LoopRanges(k, n) ==
    [vrange |-> [first |-> vertex_id(Index(Len(k.vertices) - n - 1)), count |-> n],
     erange |-> [first |-> edge_id(Index(Len(k.edges) - 2 * n - 1)),
                 count |-> Index(2 * n)]]

NoRange == [first |-> 0, count |-> 0]

LoopResult(k, out, n) ==
    IF out = "ok"
    THEN [k |-> k, out |-> out, vrange |-> LoopRanges(k, n).vrange,
          erange |-> LoopRanges(k, n).erange]
    ELSE [k |-> k, out |-> out, vrange |-> NoRange, erange |-> NoRange]

\* add_loop that anchors face2 on its ring whether or not it is a hole's parent
add_loop_anchors_both(k, n_vertices, face1, face2, is_hole) ==
    IF face1 = face2 THEN LoopResult(k, "panic", n_vertices)
    ELSE
    LET edge_offset == Index(Len(k.edges))
        vertex_offset == Index(Len(k.vertices))
        k1 == [k EXCEPT
                 !.vertices = k.vertices \o
                     [i \in 1..n_vertices |->
                         [first_edge |-> edge_id(Index(edge_offset + (i - 1)))]],
                 !.edges = k.edges
                     \o Ring1(n_vertices, face1, edge_offset, vertex_offset)
                     \o Ring2(n_vertices, face2, edge_offset, vertex_offset)]
    IN
    IF ~FaceOk(k1, face1) THEN LoopResult(k1, "panic", n_vertices)
    ELSE
    LET k2 == [k1 EXCEPT !.faces[face1].first_edge = edge_id(edge_offset)] IN
    IF ~FaceOk(k2, face2) THEN LoopResult(k2, "panic", n_vertices)
    ELSE
    LET k3 == [k2 EXCEPT !.faces[face2].first_edge =
                             edge_id(Index(edge_offset + n_vertices))]
        a1 == assert_face_invariants(k3, face1)
    IN
    IF a1 # "ok" THEN LoopResult(k3, a1, n_vertices)
    ELSE LoopResult(k3, assert_face_invariants(k3, face2), n_vertices)

\* add_loop that gives the half-edges around a hole their next as their prev
add_loop_hole_twins_unlinked(k, n_vertices, face1, face2, is_hole) ==
    IF face1 = face2 THEN LoopResult(k, "panic", n_vertices)
    ELSE
    LET edge_offset == Index(Len(k.edges))
        vertex_offset == Index(Len(k.vertices))
        k1 == [k EXCEPT
                 !.vertices = k.vertices \o
                     [i \in 1..n_vertices |->
                         [first_edge |-> edge_id(Index(edge_offset + (i - 1)))]],
                 !.edges = k.edges
                     \o Ring1(n_vertices, face1, edge_offset, vertex_offset)
                     \o [i \in 1..n_vertices |->
                           LET twin == Ring2(n_vertices, face2, edge_offset, vertex_offset)[i]
                           IN  IF is_hole THEN [twin EXCEPT !.prev = twin.next] ELSE twin]]
    IN
    IF ~FaceOk(k1, face1) THEN LoopResult(k1, "panic", n_vertices)
    ELSE
    LET k2 == [k1 EXCEPT !.faces[face1].first_edge = edge_id(edge_offset)] IN
    IF ~is_hole /\ ~FaceOk(k2, face2) THEN LoopResult(k2, "panic", n_vertices)
    ELSE
    LET k3 == IF is_hole THEN k2
              ELSE [k2 EXCEPT !.faces[face2].first_edge =
                                  edge_id(Index(edge_offset + n_vertices))]
        a1 == assert_face_invariants(k3, face1)
    IN
    IF a1 # "ok" THEN LoopResult(k3, a1, n_vertices)
    ELSE LoopResult(k3, assert_face_invariants(k3, face2), n_vertices)

add_loop(k, n_vertices, face1, face2, is_hole) ==
    IF face1 = face2 THEN LoopResult(k, "panic", n_vertices)
    ELSE
    LET edge_offset == Index(Len(k.edges))
        vertex_offset == Index(Len(k.vertices))
        k1 == [k EXCEPT
                 !.vertices = k.vertices \o
                     [i \in 1..n_vertices |->
                         [first_edge |-> edge_id(Index(edge_offset + (i - 1)))]],
                 !.edges = k.edges
                     \o Ring1(n_vertices, face1, edge_offset, vertex_offset)
                     \o Ring2(n_vertices, face2, edge_offset, vertex_offset)]
    IN
    IF ~FaceOk(k1, face1) THEN LoopResult(k1, "panic", n_vertices)
    ELSE
    LET k2 == [k1 EXCEPT !.faces[face1].first_edge = edge_id(edge_offset)] IN
    IF ~is_hole /\ ~FaceOk(k2, face2) THEN LoopResult(k2, "panic", n_vertices)
    ELSE
    LET k3 == IF is_hole THEN k2
              ELSE [k2 EXCEPT !.faces[face2].first_edge =
                                  edge_id(Index(edge_offset + n_vertices))]
        a1 == assert_face_invariants(k3, face1)
    IN
    IF a1 # "ok" THEN LoopResult(k3, a1, n_vertices)
    ELSE LoopResult(k3, assert_face_invariants(k3, face2), n_vertices)

\* constructor: [k, out]
from_loop(n_vertices) ==
    IF ~(n_vertices >= MinLoop) THEN [k |-> EmptyKernel, out |-> "panic"]
    ELSE
    LET main_face == face_id(0)
        back_face == face_id(1)
        kernel == [edges |-> <<>>, vertices |-> <<>>,
                   faces |-> << [first_edge |-> no_edge,
                                 first_interrior |-> no_face,
                                 next_sibling |-> no_face],
                                [first_edge |-> no_edge,
                                 first_interrior |-> no_face,
                                 next_sibling |-> no_face] >>]
        r == add_loop(kernel, n_vertices, main_face, back_face, FALSE)
    IN
    IF r.out # "ok" THEN [k |-> r.k, out |-> r.out]
    ELSE IF face(r.k, main_face).first_edge = 0
            \/ face(r.k, back_face).first_edge = 0
    THEN [k |-> r.k, out |-> "panic"]
    ELSE [k |-> r.k, out |-> "ok"]

\* add_hole that assigns the face array the new record instead of pushing it
add_hole_overwrites_faces(k, f, n_vertices) ==
    IF ~FaceOk(k, f)
    THEN [k |-> k, out |-> "panic", ret |-> no_face,
          vrange |-> NoRange, erange |-> NoRange]
    ELSE
    LET new_face == face_id(Index(Len(k.faces)))
        sibling == face(k, f).first_interrior
        k1 == [k EXCEPT !.faces[f].first_interrior = new_face]
        k2 == [k1 EXCEPT !.faces = << [first_edge |-> no_edge,
                                      first_interrior |-> no_face,
                                      next_sibling |-> sibling] >>]
        r == add_loop(k2, n_vertices, new_face, f, TRUE)
    IN
    [k |-> r.k, out |-> r.out,
     ret |-> IF r.out = "ok" THEN new_face ELSE no_face,
     vrange |-> r.vrange, erange |-> r.erange]

\* add_hole that does not chain the new hole to the holes the face has
add_hole_forgets_siblings(k, f, n_vertices) ==
    IF ~FaceOk(k, f)
    THEN [k |-> k, out |-> "panic", ret |-> no_face,
          vrange |-> NoRange, erange |-> NoRange]
    ELSE
    LET new_face == face_id(Index(Len(k.faces)))
        k1 == [k EXCEPT !.faces[f].first_interrior = new_face]
        k2 == [k1 EXCEPT !.faces = Append(k1.faces,
                             [first_edge |-> no_edge,
                              first_interrior |-> no_face,
                              next_sibling |-> no_face])]
        r == add_loop(k2, n_vertices, new_face, f, TRUE)
    IN
    [k |-> r.k, out |-> r.out,
     ret |-> IF r.out = "ok" THEN new_face ELSE no_face,
     vrange |-> r.vrange, erange |-> r.erange]

\* add_hole: [k, out, ret, vrange, erange]; ret is the new face
add_hole(k, f, n_vertices) ==
    IF ~FaceOk(k, f)
    THEN [k |-> k, out |-> "panic", ret |-> no_face,
          vrange |-> NoRange, erange |-> NoRange]
    ELSE
    LET new_face == face_id(Index(Len(k.faces)))
        sibling == face(k, f).first_interrior
        k1 == [k EXCEPT !.faces[f].first_interrior = new_face]
        k2 == [k1 EXCEPT !.faces = Append(k1.faces,
                             [first_edge |-> no_edge,
                              first_interrior |-> no_face,
                              next_sibling |-> sibling])]
        r == add_loop(k2, n_vertices, new_face, f, TRUE)
    IN
    [k |-> r.k, out |-> r.out,
     ret |-> IF r.out = "ok" THEN new_face ELSE no_face,
     vrange |-> r.vrange, erange |-> r.erange]

\* ------------------------------------------------------------------ split_edge
\* Insert a vertex on this edge and return the id of the new vertex:
\* [k, out, ret]
\* split_edge that also re-anchors the face of the split edge on the new edge
split_edge_reanchors_face(k, id) ==
    LET new_vertex == Index(Index(Len(k.vertices)) + 1)
        new_edge == edge_id(Index(Len(k.vertices)))
        new_opposite == edge_id(Index(Index(Len(k.vertices)) + 1))
        k1 == [k EXCEPT !.vertices = Append(k.vertices, [first_edge |-> new_edge])]
    IN
    IF ~EdgeOk(k1, id) THEN [k |-> k1, out |-> "panic", ret |-> no_vertex]
    ELSE
    LET e == edge(k1, id)
        k2 == [k1 EXCEPT !.edges = Append(k1.edges,
                   [vertex |-> e.vertex, opposite |-> e.opposite,
                    face |-> e.face, next |-> e.next, prev |-> id])]
    IN
    IF ~EdgeOk(k2, e.opposite) THEN [k |-> k2, out |-> "panic", ret |-> no_vertex]
    ELSE
    LET o == edge(k2, e.opposite)
        k3 == [k2 EXCEPT !.edges = Append(k2.edges,
                   [vertex |-> o.vertex, opposite |-> id,
                    face |-> o.face, next |-> o.next, prev |-> e.opposite])]
        k4 == [k3 EXCEPT !.edges[id].vertex = new_vertex]
        k5 == [k4 EXCEPT !.edges[id].next = new_edge]
        k6 == [k5 EXCEPT !.edges[e.opposite].vertex = new_vertex]
        k7 == [k6 EXCEPT !.edges[e.opposite].next = new_opposite]
    IN
    IF ~FaceOk(k7, e.face) THEN [k |-> k7, out |-> "panic", ret |-> no_vertex]
    ELSE [k |-> [k7 EXCEPT !.faces[e.face].first_edge = new_edge],
          out |-> "ok", ret |-> new_vertex]

\* split_edge with the handle after the one of the vertex it pushes
split_edge_vertex_past_end(k, id) ==
    LET new_vertex == Index(Index(Len(k.vertices)) + 2)
        new_edge == edge_id(Index(Len(k.vertices)))
        new_opposite == edge_id(Index(Index(Len(k.vertices)) + 1))
        k1 == [k EXCEPT !.vertices = Append(k.vertices, [first_edge |-> new_edge])]
    IN
    IF ~EdgeOk(k1, id) THEN [k |-> k1, out |-> "panic", ret |-> no_vertex]
    ELSE
    LET e == edge(k1, id)
        k2 == [k1 EXCEPT !.edges = Append(k1.edges,
                   [vertex |-> e.vertex, opposite |-> e.opposite,
                    face |-> e.face, next |-> e.next, prev |-> id])]
    IN
    IF ~EdgeOk(k2, e.opposite) THEN [k |-> k2, out |-> "panic", ret |-> no_vertex]
    ELSE
    LET o == edge(k2, e.opposite)
        k3 == [k2 EXCEPT !.edges = Append(k2.edges,
                   [vertex |-> o.vertex, opposite |-> id,
                    face |-> o.face, next |-> o.next, prev |-> e.opposite])]
        \* patch up existing edges, one assignment after the other
        k4 == [k3 EXCEPT !.edges[id].vertex = new_vertex]
        k5 == [k4 EXCEPT !.edges[id].next = new_edge]
        k6 == [k5 EXCEPT !.edges[e.opposite].vertex = new_vertex]
        k7 == [k6 EXCEPT !.edges[e.opposite].next = new_opposite]
    IN
    [k |-> k7, out |-> "ok", ret |-> new_vertex]

split_edge(k, id) ==
    LET new_vertex == Index(Index(Len(k.vertices)) + 1)
        new_edge == edge_id(Index(Len(k.vertices)))
        new_opposite == edge_id(Index(Index(Len(k.vertices)) + 1))
        k1 == [k EXCEPT !.vertices = Append(k.vertices, [first_edge |-> new_edge])]
    IN
    IF ~EdgeOk(k1, id) THEN [k |-> k1, out |-> "panic", ret |-> no_vertex]
    ELSE
    LET e == edge(k1, id)
        k2 == [k1 EXCEPT !.edges = Append(k1.edges,
                   [vertex |-> e.vertex, opposite |-> e.opposite,
                    face |-> e.face, next |-> e.next, prev |-> id])]
    IN
    IF ~EdgeOk(k2, e.opposite) THEN [k |-> k2, out |-> "panic", ret |-> no_vertex]
    ELSE
    LET o == edge(k2, e.opposite)
        k3 == [k2 EXCEPT !.edges = Append(k2.edges,
                   [vertex |-> o.vertex, opposite |-> id,
                    face |-> o.face, next |-> o.next, prev |-> e.opposite])]
        \* patch up existing edges, one assignment after the other
        k4 == [k3 EXCEPT !.edges[id].vertex = new_vertex]
        k5 == [k4 EXCEPT !.edges[id].next = new_edge]
        k6 == [k5 EXCEPT !.edges[e.opposite].vertex = new_vertex]
        k7 == [k6 EXCEPT !.edges[e.opposite].next = new_opposite]
    IN
    [k |-> k7, out |-> "ok", ret |-> new_vertex]

\* ------------------------------------------------------------------ split_face
\* The loop that hands the new face its ring: [k, out]. After more steps
\* than there are half-edges without coming back to new_opposite_edge the
\* walk is in a cycle that does not contain it: "hang".
RECURSIVE FaceLoop(_, _, _, _, _)
FaceLoop(k, it, new_opposite_edge, new_face, fuel) ==
    IF ~EdgeOk(k, it) THEN [k |-> k, out |-> "panic"]
    ELSE
    LET k1 == [k EXCEPT !.edges[it].face = new_face]
        nxt == edge(k1, it).next
    IN
    IF nxt = new_opposite_edge THEN [k |-> k1, out |-> "ok"]
    ELSE IF fuel = 0 THEN [k |-> k1, out |-> "hang"]
    ELSE FaceLoop(k1, nxt, new_opposite_edge, new_face, fuel - 1)

\* the preconditions without assert!(self.edge(a_next).next != b_next)
SplitFacePre_no_next_check(k, a_next, b_next) ==
    /\ EdgeOk(k, a_next)
    /\ EdgeOk(k, b_next)
    /\ EdgeOk(k, edge(k, a_next).prev)
    /\ EdgeOk(k, edge(k, b_next).prev)
    /\ edge(k, edge(k, a_next).prev).face = edge(k, edge(k, b_next).prev).face
    /\ edge(k, a_next).prev # b_next

\* the preconditions without assert!(a_prev != b_next)
SplitFacePre_no_prev_check(k, a_next, b_next) ==
    /\ EdgeOk(k, a_next)
    /\ EdgeOk(k, b_next)
    /\ EdgeOk(k, edge(k, a_next).prev)
    /\ EdgeOk(k, edge(k, b_next).prev)
    /\ edge(k, edge(k, a_next).prev).face = edge(k, edge(k, b_next).prev).face
    /\ edge(k, a_next).next # b_next

\* TRUE iff the accessors and the three precondition asserts of split_face
\* pass, the walk of assert_face_invariants aside
SplitFacePre(k, a_next, b_next) ==
    /\ EdgeOk(k, a_next)
    /\ EdgeOk(k, b_next)
    /\ EdgeOk(k, edge(k, a_next).prev)
    /\ EdgeOk(k, edge(k, b_next).prev)
    /\ edge(k, edge(k, a_next).prev).face = edge(k, edge(k, b_next).prev).face
    /\ edge(k, a_next).next # b_next
    /\ edge(k, a_next).prev # b_next

\* The pushes of split_face: the new face, then new_edge (va -> vb), then
\* new_opposite_edge (vb -> va)
SplitFacePush(k, a_next, b_next) ==
    LET a_prev == edge(k, a_next).prev
        b_prev == edge(k, b_next).prev
        original_face == edge(k, a_prev).face
        va == edge(k, a_next).vertex
        vb == edge(k, b_next).vertex
        new_edge == edge_id(Index(Len(k.edges)))
        new_opposite_edge == edge_id(Index(Index(Len(k.edges)) + 1))
        k1 == [k EXCEPT !.faces = Append(k.faces,
                   [first_edge |-> new_opposite_edge,
                    first_interrior |-> no_face,
                    next_sibling |-> no_face])]
        new_face == face_id(Index(Index(Len(k1.faces)) - 1))
        k2 == [k1 EXCEPT !.edges = Append(k1.edges,
                   [next |-> b_next, prev |-> a_prev,
                    opposite |-> new_opposite_edge,
                    face |-> original_face, vertex |-> va])]
    IN
    [k2 EXCEPT !.edges = Append(k2.edges,
        [next |-> a_next, prev |-> b_prev,
         opposite |-> new_edge,
         face |-> new_face, vertex |-> vb])]

\* the splice with the original face written anew, without its holes
SplitFaceRelink_drops_holes(k, a_prev, a_next, b_prev, b_next, original_face, new_edge, new_opposite_edge) ==
    LET k4 == [k EXCEPT !.edges[a_prev].next = new_edge]
        k5 == [k4 EXCEPT !.edges[a_next].prev = new_opposite_edge]
        k6 == [k5 EXCEPT !.edges[b_prev].next = new_opposite_edge]
        k7 == [k6 EXCEPT !.edges[b_next].prev = new_edge]
    IN
    [k7 EXCEPT !.faces[original_face] =
        [first_edge |-> new_edge, first_interrior |-> no_face, next_sibling |-> no_face]]

\* the splice with the original face anchored at new_opposite_edge
SplitFaceRelink_wrong_anchor(k, a_prev, a_next, b_prev, b_next, original_face, new_edge, new_opposite_edge) ==
    LET k4 == [k EXCEPT !.edges[a_prev].next = new_edge]
        k5 == [k4 EXCEPT !.edges[a_next].prev = new_opposite_edge]
        k6 == [k5 EXCEPT !.edges[b_prev].next = new_opposite_edge]
        k7 == [k6 EXCEPT !.edges[b_next].prev = new_edge]
    IN
    [k7 EXCEPT !.faces[original_face].first_edge = new_opposite_edge]

\* The five assignments that splice the diagonal in, one after the other.
\* k is the kernel after the pushes; the handles were computed before them.
SplitFaceRelink(k, a_prev, a_next, b_prev, b_next, original_face, new_edge, new_opposite_edge) ==
    LET k4 == [k EXCEPT !.edges[a_prev].next = new_edge]
        k5 == [k4 EXCEPT !.edges[a_next].prev = new_opposite_edge]
        k6 == [k5 EXCEPT !.edges[b_prev].next = new_opposite_edge]
        k7 == [k6 EXCEPT !.edges[b_next].prev = new_edge]
    IN
    [k7 EXCEPT !.faces[original_face].first_edge = new_edge]

\* Split a face in two along the vertices that a_prev and b_prev point to:
\* [k, out, ret]; ret is the new face
split_face(k, a_next, b_next) ==
    IF ~(EdgeOk(k, a_next) /\ EdgeOk(k, b_next)
         /\ EdgeOk(k, edge(k, a_next).prev) /\ EdgeOk(k, edge(k, b_next).prev))
    THEN [k |-> k, out |-> "panic", ret |-> no_face]
    ELSE
    LET a_prev == edge(k, a_next).prev
        b_prev == edge(k, b_next).prev
        original_face == edge(k, a_prev).face
        p == assert_face_invariants(k, original_face)
    IN
    IF p # "ok" THEN [k |-> k, out |-> p, ret |-> no_face]
    ELSE IF ~SplitFacePre(k, a_next, b_next)
    THEN [k |-> k, out |-> "panic", ret |-> no_face]
    ELSE
    LET new_edge == edge_id(Index(Len(k.edges)))
        new_opposite_edge == edge_id(Index(Index(Len(k.edges)) + 1))
        k3 == SplitFacePush(k, a_next, b_next)
        new_face == face_id(Index(Index(Len(k3.faces)) - 1))
        k8 == SplitFaceRelink(k3, a_prev, a_next, b_prev, b_next,
                              original_face, new_edge, new_opposite_edge)
        l == FaceLoop(k8, new_opposite_edge, new_opposite_edge, new_face,
                      Len(k8.edges))
    IN
    IF l.out # "ok" THEN [k |-> l.k, out |-> l.out, ret |-> no_face]
    ELSE
    LET q1 == assert_face_invariants(l.k, original_face) IN
    IF q1 # "ok" THEN [k |-> l.k, out |-> q1, ret |-> no_face]
    ELSE
    LET q2 == assert_face_invariants(l.k, new_face) IN
    IF q2 # "ok" THEN [k |-> l.k, out |-> q2, ret |-> no_face]
    ELSE [k |-> l.k, out |-> "ok", ret |-> new_face]

\* ------------------------------------------------------------------ around a vertex
\* next_edge_around_vertex: [out, ret]
\* a step that takes next first and opposite second
next_edge_around_vertex_next_first(k, id) ==
    IF ~EdgeOk(k, id) \/ ~EdgeOk(k, edge(k, id).next)
    THEN [out |-> "panic", ret |-> no_edge]
    ELSE [out |-> "ok", ret |-> edge(k, edge(k, id).next).opposite]

next_edge_around_vertex(k, id) ==
    IF ~EdgeOk(k, id) \/ ~EdgeOk(k, edge(k, id).opposite)
    THEN [out |-> "panic", ret |-> no_edge]
    ELSE [out |-> "ok", ret |-> edge(k, edge(k, id).opposite).next]

\* VertexEdgeIterator ("the half edges that point to a vertex"): the
\* iterator is [current_edge, first_edge], the step is [out, some, val, it].
\* a next that steps with next_edge_around_vertex
VertexEdgeIterator_next_around_origin(k, it) ==
    IF ~is_valid(it.current_edge)
    THEN [out |-> "ok", some |-> FALSE, val |-> no_edge, it |-> it]
    ELSE IF next_edge_around_vertex(k, it.current_edge).out # "ok"
    THEN [out |-> "panic", some |-> FALSE, val |-> no_edge, it |-> it]
    ELSE LET to == next_edge_around_vertex(k, it.current_edge).ret IN
         [out |-> "ok", some |-> TRUE, val |-> it.current_edge,
          it |-> [current_edge |-> IF to = it.first_edge THEN no_edge ELSE to,
                  first_edge |-> it.first_edge]]

\* a next that goes on when it is back at first_edge
VertexEdgeIterator_next_never_stops(k, it) ==
    IF ~is_valid(it.current_edge)
    THEN [out |-> "ok", some |-> FALSE, val |-> no_edge, it |-> it]
    ELSE IF ~EdgeOk(k, it.current_edge) \/ ~EdgeOk(k, edge(k, it.current_edge).next)
    THEN [out |-> "panic", some |-> FALSE, val |-> no_edge, it |-> it]
    ELSE LET to == edge(k, edge(k, it.current_edge).next).opposite IN
         [out |-> "ok", some |-> TRUE, val |-> it.current_edge,
          it |-> [current_edge |-> to, first_edge |-> it.first_edge]]

VertexEdgeIterator_next(k, it) ==
    IF ~is_valid(it.current_edge)
    THEN [out |-> "ok", some |-> FALSE, val |-> no_edge, it |-> it]
    ELSE IF ~EdgeOk(k, it.current_edge) \/ ~EdgeOk(k, edge(k, it.current_edge).next)
    THEN [out |-> "panic", some |-> FALSE, val |-> no_edge, it |-> it]
    ELSE LET to == edge(k, edge(k, it.current_edge).next).opposite IN
         [out |-> "ok", some |-> TRUE, val |-> it.current_edge,
          it |-> [current_edge |-> IF to = it.first_edge THEN no_edge ELSE to,
                  first_edge |-> it.first_edge]]

\* The items a for-loop over the iterator sees and the iterator it leaves:
\* [out, items, it], with "hang" as in Drain.
RECURSIVE DrainVertex(_, _, _, _)
DrainVertex(k, it, acc, fuel) ==
    LET s == VertexEdgeIterator_next(k, it) IN
    IF s.out = "panic" THEN [out |-> "panic", items |-> acc, it |-> it]
    ELSE IF ~s.some THEN [out |-> "ok", items |-> acc, it |-> s.it]
    ELSE IF fuel = 0 THEN [out |-> "hang", items |-> acc, it |-> it]
    ELSE DrainVertex(k, s.it, Append(acc, s.val), fuel - 1)

\* the iterator with current edge == first edge == e, drained
WalkVertex(k, e) ==
    DrainVertex(k, [current_edge |-> e, first_edge |-> e], <<>>, Len(k.edges))

\* ------------------------------------------------------------------ circulators
\* enum Direction and Direction::reverse
Direction_Forward == "Forward"
Direction_Backward == "Backward"
Direction == {Direction_Forward, Direction_Backward}

Direction_reverse(d) ==
    IF d = Direction_Forward THEN Direction_Backward ELSE Direction_Forward

\* An EdgeCirculator is [edge]; its kernel reference is the kernel the
\* operators are given. new() does not look at the handle. The methods take
\* self by value and return a new cursor: [out, c], out = "panic" when
\* kernel.edge(self.edge) fails (c is then the cursor the call was made on).
EdgeCirculator_new(id) == [edge |-> id]

EdgeCirculator_next(k, c) ==
    IF ~EdgeOk(k, c.edge) THEN [out |-> "panic", c |-> c]
    ELSE [out |-> "ok", c |-> [edge |-> edge(k, c.edge).next]]

\* a prev that reads the opposite field instead of prev
EdgeCirculator_prev_reads_opposite(k, c) ==
    IF ~EdgeOk(k, c.edge) THEN [out |-> "panic", c |-> c]
    ELSE [out |-> "ok", c |-> [edge |-> edge(k, c.edge).opposite]]

EdgeCirculator_prev(k, c) ==
    IF ~EdgeOk(k, c.edge) THEN [out |-> "panic", c |-> c]
    ELSE [out |-> "ok", c |-> [edge |-> edge(k, c.edge).prev]]

EdgeCirculator_advance(k, c, direction) ==
    IF direction = Direction_Forward THEN EdgeCirculator_next(k, c)
    ELSE EdgeCirculator_prev(k, c)

EdgeCirculator_eq(a, b) == a.edge = b.edge
EdgeCirculator_ne(a, b) == a.edge # b.edge

\* A DirectedEdgeCirculator is [circulator, direction]
DirectedEdgeCirculator_new(id, direction) ==
    [circulator |-> EdgeCirculator_new(id), direction |-> direction]

Directed(r, direction) ==
    [out |-> r.out, c |-> [circulator |-> r.c, direction |-> direction]]

\* a next that always steps to next, whatever the stored direction
DirectedEdgeCirculator_next_ignores_direction(k, c) ==
    Directed(EdgeCirculator_next(k, c.circulator), c.direction)

DirectedEdgeCirculator_next(k, c) ==
    Directed(EdgeCirculator_advance(k, c.circulator, c.direction), c.direction)

DirectedEdgeCirculator_prev(k, c) ==
    Directed(EdgeCirculator_advance(k, c.circulator, Direction_reverse(c.direction)),
             c.direction)

DirectedEdgeCirculator_advance(k, c, direction) ==
    IF c.direction = direction THEN DirectedEdgeCirculator_next(k, c)
    ELSE DirectedEdgeCirculator_prev(k, c)

\* an eq that compares the stored direction as well, as a derived one would
DirectedEdgeCirculator_eq_with_direction(a, b) ==
    a.circulator.edge = b.circulator.edge /\ a.direction = b.direction

DirectedEdgeCirculator_eq(a, b) == a.circulator.edge = b.circulator.edge
DirectedEdgeCirculator_ne(a, b) == a.circulator.edge # b.circulator.edge

\* ------------------------------------------------------------------ not implemented
\* join_vertices, merge_vertices, extrude_edge, extrude_face: [k, out]. The
\* body is panic!("not implemented"); the arguments are not looked at.
\* a join_vertices that returns without doing anything
join_vertices_returns(k, a, b) == [k |-> k, out |-> "ok"]

join_vertices(k, a, b) == [k |-> k, out |-> "panic"]
merge_vertices(k, a, b) == [k |-> k, out |-> "panic"]
extrude_edge(k, id) == [k |-> k, out |-> "panic"]
extrude_face(k, id, face_per_edge) == [k |-> k, out |-> "panic"]

NotImplemented == {"join_vertices", "merge_vertices", "extrude_edge", "extrude_face"}

NotImplementedCall(op, k, a, b) ==
    CASE op = "join_vertices" -> join_vertices(k, a, b)
      [] op = "merge_vertices" -> merge_vertices(k, a, b)
      [] op = "extrude_edge" -> extrude_edge(k, a)
      [] op = "extrude_face" -> extrude_face(k, a, b = 1)

\* ------------------------------------------------------------------ geometry builders
\* tessellation/src/geometry_builder.rs. Index is u32 there (end_geometry
\* subtracts an Index from a u32); a VertexId is modelled by its number.
\* Every natural number of the model is below 2^32, so a u32 sum or cast
\* keeps its value: U32 reduces modulo 2^32 written as 65536 * 65536.
U32(x) == (((x \div 65536) % 65536) * 65536) + (x % 65536)

\* a - b in u32. The offsets are lengths the buffers had and nothing shortens
\* the buffers below them, so b is never above a.
Sub32(a, b) == U32(a - b)

\* x >= u32::MAX
AtU32Max(x) == x \div 65536 > 65535 \/ (x \div 65536 = 65535 /\ x % 65536 >= 65535)

\* VertexConstructor::new_vertex: the vertex stored for an input
new_vertex(input) == <<"vertex", input>>

\* MaxIndex::max_index of the index type of the buffers
max_index(IndexType) ==
    CASE IndexType = "u8" -> 255
      [] IndexType = "i8" -> 127
      [] IndexType = "u16" -> 65535

\* VertexId + Index and IndexType::from(VertexId), the sum and the .into()
\* of add_triangle. Their impls are in crate::path, not in this file: the
\* sum is taken to be the u32 sum of the numbers, and the conversion to keep
\* the low bits that the index type has.
VertexId_add(id, offset) == U32(id + offset)

IndexType_from(IndexType, id) == id % (max_index(IndexType) + 1)

\* A BuffersBuilder is [buffers, vertex_offset, index_offset, IndexType];
\* buffers is the VertexBuffers [vertices, indices] it borrows.
BuffersBuilder_new(buffers, IndexType) ==
    [buffers |-> buffers,
     vertex_offset |-> U32(Len(buffers.vertices)),
     index_offset |-> U32(Len(buffers.indices)),
     IndexType |-> IndexType]

\* Every method gives [b, out, ret]: the builder after the call, "ok" or
\* "panic", and what the call returned.
NoCount == [vertices |-> 0, indices |-> 0]
\* Result<VertexId, GeometryBuilderError>
Ok(id) == [res |-> "Ok", id |-> id]
Err(e) == [res |-> e, id |-> 0]
Unit == [res |-> "()", id |-> 0]

BuffersBuilder_begin_geometry(b) ==
    [b |-> [b EXCEPT !.vertex_offset = U32(Len(b.buffers.vertices)),
                     !.index_offset = U32(Len(b.buffers.indices))],
     out |-> "ok", ret |-> Unit]

\* an end_geometry that reports the lengths of the buffers
BuffersBuilder_end_geometry_counts_all(b) ==
    [b |-> b, out |-> "ok",
     ret |-> [vertices |-> U32(Len(b.buffers.vertices)),
              indices |-> U32(Len(b.buffers.indices))]]

BuffersBuilder_end_geometry(b) ==
    [b |-> b, out |-> "ok",
     ret |-> [vertices |-> Sub32(U32(Len(b.buffers.vertices)), b.vertex_offset),
              indices |-> Sub32(U32(Len(b.buffers.indices)), b.index_offset)]]

\* Vec::truncate(len): no effect when len is not below the length
truncate(v, len) == IF len < Len(v) THEN SubSeq(v, 1, len) ELSE v

\* an abort_geometry that clears the buffers
BuffersBuilder_abort_geometry_clears(b) ==
    [b |-> [b EXCEPT !.buffers = [vertices |-> <<>>, indices |-> <<>>]],
     out |-> "ok", ret |-> Unit]

BuffersBuilder_abort_geometry(b) ==
    [b |-> [b EXCEPT !.buffers =
                [vertices |-> truncate(b.buffers.vertices, b.vertex_offset),
                 indices |-> truncate(b.buffers.indices, b.index_offset)]],
     out |-> "ok", ret |-> Unit]

\* the debug_asserts of add_triangle; they are compiled in only when debug
\* assertions are on. No caller here passes VertexId::INVALID.
TriangleAsserts(a, b, c) == a # b /\ a # c /\ b # c

\* an add_triangle that writes the ids as they are
BuffersBuilder_add_triangle_no_offset(bb, a, b, c, debug) ==
    IF debug /\ ~TriangleAsserts(a, b, c)
    THEN [b |-> bb, out |-> "panic", ret |-> Unit]
    ELSE [b |-> [bb EXCEPT !.buffers.indices = @ \o <<a, b, c>>], out |-> "ok", ret |-> Unit]

BuffersBuilder_add_triangle(bb, a, b, c, debug) ==
    IF debug /\ ~TriangleAsserts(a, b, c)
    THEN [b |-> bb, out |-> "panic", ret |-> Unit]
    ELSE [b |-> [bb EXCEPT !.buffers.indices = @ \o
                    <<IndexType_from(bb.IndexType, VertexId_add(a, bb.vertex_offset)),
                      IndexType_from(bb.IndexType, VertexId_add(b, bb.vertex_offset)),
                      IndexType_from(bb.IndexType, VertexId_add(c, bb.vertex_offset))>>],
          out |-> "ok", ret |-> Unit]

\* the vertex is pushed before the length is tested
BuffersBuilder_add_fill_vertex(b, input) ==
    LET pushed == [b EXCEPT !.buffers.vertices = Append(@, new_vertex(input))]
        len == Len(pushed.buffers.vertices)
    IN  IF len > max_index(b.IndexType)
        THEN [b |-> pushed, out |-> "ok", ret |-> Err("TooManyVertices")]
        ELSE [b |-> pushed, out |-> "ok", ret |-> Ok(Sub32(U32(len - 1), b.vertex_offset))]

BuffersBuilder_add_stroke_vertex(b, v) ==
    LET pushed == [b EXCEPT !.buffers.vertices = Append(@, new_vertex(v))]
        len == Len(pushed.buffers.vertices)
    IN  IF len > max_index(b.IndexType)
        THEN [b |-> pushed, out |-> "ok", ret |-> Err("TooManyVertices")]
        ELSE [b |-> pushed, out |-> "ok", ret |-> Ok(Sub32(U32(len - 1), b.vertex_offset))]

\* A NoOutput is [count].
NoOutput_new == [count |-> NoCount]

NoOutput_begin_geometry(b) ==
    [b |-> [b EXCEPT !.count = NoCount], out |-> "ok", ret |-> Unit]

NoOutput_add_triangle(bb, a, b, c, debug) ==
    IF debug /\ ~TriangleAsserts(a, b, c)
    THEN [b |-> bb, out |-> "panic", ret |-> Unit]
    ELSE [b |-> [bb EXCEPT !.count.indices = U32(@ + 3)], out |-> "ok", ret |-> Unit]

NoOutput_end_geometry(b) == [b |-> b, out |-> "ok", ret |-> b.count]

NoOutput_abort_geometry(b) == [b |-> b, out |-> "ok", ret |-> Unit]

NoOutput_add_vertex(b) ==
    IF AtU32Max(b.count.vertices)
    THEN [b |-> b, out |-> "ok", ret |-> Err("TooManyVertices")]
    ELSE [b |-> [b EXCEPT !.count.vertices = @ + 1],
          out |-> "ok", ret |-> Ok(U32(b.count.vertices + 1 - 1))]

NoOutput_add_fill_vertex(b, pos) == NoOutput_add_vertex(b)

NoOutput_add_stroke_vertex(b, pos) == NoOutput_add_vertex(b)

\* ------------------------------------------------------------------ state machine
\* geo holds a geometry builder and what is remembered about its calls; the
\* kernel has none.
NoGeometry == [builder |-> "none"]

\* pre is the kernel as it was when the last call started, last describes
\* that call and its outcome, used collects the operations called before it,
\* made is the history of the add_hole calls that returned, oldest first:
\* [face, hole] for the face given and the face returned.
\* A call that panics or hangs ends the process: nothing is called after it.
\* A call of an accessor is followed to its outcome and no further: it leaves
\* the kernel as it found it, and what can be called on that kernel is
\* followed from the state the accessor was called in.
Call(op, a, b, out, ret, vrange, erange) ==
    [op |-> op, a |-> a, b |-> b, out |-> out, ret |-> ret,
     vrange |-> vrange, erange |-> erange]

Init ==
    \E n \in MinLoop..MaxLoop :
        /\ from_loop(n).out = "ok"
        /\ edges = from_loop(n).k.edges
        /\ vertices = from_loop(n).k.vertices
        /\ faces = from_loop(n).k.faces
        /\ pre = EmptyKernel
        /\ last = Call("from_loop", n, 0, "ok", 0, NoRange, NoRange)
        /\ nops = 0
        /\ used = {}
        /\ made = <<>>
        /\ geo = NoGeometry

Accessors == {"vertex", "edge", "face"}

Live == last.out = "ok" /\ nops < MaxOps /\ last.op \notin Accessors

Tags(c) ==
    IF c.op = "from_loop" THEN {}
    ELSE IF c.op = "add_hole" /\ c.b < MinLoop THEN {"add_hole", "small_hole"}
    ELSE {c.op}

Becomes(k) ==
    /\ edges' = k.edges
    /\ vertices' = k.vertices
    /\ faces' = k.faces
    /\ pre' = Kernel
    /\ nops' = nops + 1
    /\ used' = used \cup Tags(last)
    /\ UNCHANGED geo

AddHole ==
    /\ Live
    /\ \E f \in 0..(Len(faces) + 1), n \in 0..MaxHole :
        /\ Len(edges) + 2 * n <= MaxEdges
        /\ LET r == add_hole(Kernel, f, n) IN
           /\ Becomes(r.k)
           /\ last' = Call("add_hole", f, n, r.out, r.ret, r.vrange, r.erange)
           /\ made' = IF r.out = "ok"
                      THEN Append(made, [face |-> f, hole |-> r.ret])
                      ELSE made

SplitEdge ==
    /\ Live
    /\ Len(edges) + 2 <= MaxEdges
    /\ \E id \in 0..(Len(edges) + 1) :
        LET r == split_edge(Kernel, id) IN
        /\ Becomes(r.k)
        /\ last' = Call("split_edge", id, 0, r.out, r.ret, NoRange, NoRange)
        /\ UNCHANGED made

SplitFace ==
    /\ Live
    /\ Len(edges) + 2 <= MaxEdges
    /\ \E a_next, b_next \in 0..(Len(edges) + 1) :
        LET r == split_face(Kernel, a_next, b_next) IN
        /\ Becomes(r.k)
        /\ last' = Call("split_face", a_next, b_next, r.out, r.ret, NoRange, NoRange)
        /\ UNCHANGED made

\* vertex(id), edge(id) or face(id) with the sentinel, the first handle, the
\* last handle of the array, the one past it, or the largest handle
Access ==
    /\ Live
    /\ \E kind \in Accessors :
        \E id \in {0, 1, Len(ArrayOf(kind, Kernel)),
                    Len(ArrayOf(kind, Kernel)) + 1, 65535} :
            LET r == AccessorCall(kind, Kernel, id) IN
            /\ Becomes(r.k)
            /\ last' = Call(kind, id, 0, r.out, 0, NoRange, NoRange)
            /\ UNCHANGED made

\* one of the four operations that are declared only, with a first argument
\* that is the sentinel, the first handle, or the last vertex handle or the
\* one after it, and a second argument 0 or 1 (a handle, or the bool of
\* extrude_face; extrude_edge has none)
Unimplemented ==
    /\ Live
    /\ \E op \in NotImplemented :
        \E a \in {0, 1, Len(vertices), Len(vertices) + 1}, b \in 0..1 :
            /\ op = "extrude_edge" => b = 0
            /\ LET r == NotImplementedCall(op, Kernel, a, b) IN
               /\ Becomes(r.k)
               /\ last' = Call(op, a, b, r.out, 0, NoRange, NoRange)
               /\ UNCHANGED made

Next == AddHole \/ SplitEdge \/ SplitFace \/ Access \/ Unimplemented

Spec == Init /\ [][Next]_vars

\* ------------------------------------------------------------------ builder calls
\* One builder, a BuffersBuilder over buffers that already hold something or
\* a NoOutput, and the calls made on it. geo.b is the builder, geo.input the
\* vertex input type of a BuffersBuilder (it takes fill vertices or stroke
\* vertices, not both), geo.debug whether debug assertions are compiled in.
\* geo.begun remembers the most recent begin_geometry (or the creation, when
\* called is FALSE): the buffers then, the vertices and indices added since,
\* the results of the vertex additions, and whether only additions followed
\* (end_geometry, which changes nothing, aside). geo.cap is the number of
\* vertices the builder is given at most, those held before included:
\* MaxVertices, or one more than the index type can address for a builder
\* made over buffers that lack one vertex to be full.
\* The input a vertex is made from is the number of vertices the builder
\* took before it, plus one: no two vertices of one builder are equal, and
\* none equals a vertex held before, which is made from 0.
Points(g) == {(IF g.builder = "BuffersBuilder" THEN Len(g.b.buffers.vertices) ELSE g.b.count.vertices) + 1}

HeldBuffers(p, q) == [vertices |-> [i \in 1..p |-> new_vertex(0)], indices |-> [i \in 1..q |-> 0]]

Begun(buffers, called) ==
    [buffers |-> buffers, called |-> called, vertices |-> 0, indices |-> 0,
     ids |-> <<>>, clean |-> TRUE]

InitGeometry ==
    /\ edges = <<>> /\ vertices = <<>> /\ faces = <<>>
    /\ pre = EmptyKernel
    /\ nops = 0 /\ used = {} /\ made = <<>>
    /\ last = Call("new", 0, 0, "ok", Unit, NoRange, NoRange)
    /\ \E debug \in BOOLEAN :
        \/ \E p, q \in 0..MaxHeld, input \in {"Point", "StrokeVertex"} :
              geo = [builder |-> "BuffersBuilder", input |-> input, debug |-> debug,
                     b |-> BuffersBuilder_new(HeldBuffers(p, q), "u16"),
                     cap |-> MaxVertices,
                     begun |-> Begun(HeldBuffers(p, q), FALSE)]
        \/ \E q \in 0..MaxHeld, input \in {"Point", "StrokeVertex"} :
              geo = [builder |-> "BuffersBuilder", input |-> input, debug |-> debug,
                     b |-> BuffersBuilder_new(HeldBuffers(max_index("i8") - 1, q), "i8"),
                     cap |-> max_index("i8") + 1,
                     begun |-> Begun(HeldBuffers(max_index("i8") - 1, q), FALSE)]
        \/ geo = [builder |-> "NoOutput", input |-> "any", debug |-> debug,
                  b |-> NoOutput_new,
                  cap |-> MaxVertices,
                  begun |-> Begun(HeldBuffers(0, 0), FALSE)]

IsBuffers == geo.builder = "BuffersBuilder"

\* buffers of the builder; a NoOutput has none
BuffersOf(g) == IF g.builder = "BuffersBuilder" THEN g.b.buffers ELSE HeldBuffers(0, 0)

\* vertices and indices the builder has taken so far
VerticesIn(g) == IF g.builder = "BuffersBuilder" THEN Len(g.b.buffers.vertices) ELSE g.b.count.vertices
IndicesIn(g) == IF g.builder = "BuffersBuilder" THEN Len(g.b.buffers.indices) ELSE g.b.count.indices

GeoLive == last.out = "ok"

\* pre is the builder before the call
GeoFrame == pre' = geo.b /\ UNCHANGED <<edges, vertices, faces, nops, used, made>>

Called(op, a, r) == last' = Call(op, a, 0, r.out, r.ret, NoRange, NoRange)

BeginGeometry ==
    /\ GeoLive
    /\ LET r == IF IsBuffers THEN BuffersBuilder_begin_geometry(geo.b)
                ELSE NoOutput_begin_geometry(geo.b)
           g == [geo EXCEPT !.b = r.b]
       IN  /\ geo' = [g EXCEPT !.begun = Begun(BuffersOf(g), TRUE)]
           /\ Called("begin_geometry", 0, r)
    /\ GeoFrame

\* What is remembered is kept up while only additions follow the most recent
\* begin_geometry. The vertex counts as added when the builder took it.
Added(r) ==
    geo' = IF geo.begun.clean
           THEN [geo EXCEPT !.b = r.b,
                            !.begun.vertices = @ + (IF r.b # geo.b THEN 1 ELSE 0),
                            !.begun.ids = Append(@, r.ret)]
           ELSE [geo EXCEPT !.b = r.b]

AddFillVertex ==
    /\ GeoLive
    /\ geo.input \in {"Point", "any"}
    /\ VerticesIn(geo) < geo.cap
    /\ \E input \in Points(geo) :
        LET r == IF IsBuffers THEN BuffersBuilder_add_fill_vertex(geo.b, input)
                 ELSE NoOutput_add_fill_vertex(geo.b, input)
        IN  Added(r) /\ Called("add_fill_vertex", input, r)
    /\ GeoFrame

AddStrokeVertex ==
    /\ GeoLive
    /\ geo.input \in {"StrokeVertex", "any"}
    /\ VerticesIn(geo) < geo.cap
    /\ \E v \in Points(geo) :
        LET r == IF IsBuffers THEN BuffersBuilder_add_stroke_vertex(geo.b, v)
                 ELSE NoOutput_add_stroke_vertex(geo.b, v)
        IN  Added(r) /\ Called("add_stroke_vertex", v, r)
    /\ GeoFrame

\* triangles over the first three ids: a proper one, and one with two equal
\* corners
Triangles == {<<0, 1, 2>>, <<2, 0, 2>>}

AddTriangle ==
    /\ GeoLive
    /\ IndicesIn(geo) + 3 <= 3 * MaxTriangles
    /\ \E t \in Triangles :
        LET r == IF IsBuffers THEN BuffersBuilder_add_triangle(geo.b, t[1], t[2], t[3], geo.debug)
                 ELSE NoOutput_add_triangle(geo.b, t[1], t[2], t[3], geo.debug)
        IN  /\ geo' = IF geo.begun.clean
                       THEN [geo EXCEPT !.b = r.b,
                                        !.begun.indices = @ + (IF r.out = "ok" THEN 3 ELSE 0)]
                       ELSE [geo EXCEPT !.b = r.b]
            /\ Called("add_triangle", t, r)
    /\ GeoFrame

EndGeometry ==
    /\ GeoLive
    /\ LET r == IF IsBuffers THEN BuffersBuilder_end_geometry(geo.b)
                ELSE NoOutput_end_geometry(geo.b)
       IN  /\ geo' = [geo EXCEPT !.b = r.b]
           /\ Called("end_geometry", 0, r)
    /\ GeoFrame

AbortGeometry ==
    /\ GeoLive
    /\ LET r == IF IsBuffers THEN BuffersBuilder_abort_geometry(geo.b)
                ELSE NoOutput_abort_geometry(geo.b)
       IN  /\ geo' = [geo EXCEPT !.b = r.b, !.begun.clean = FALSE]
           /\ Called("abort_geometry", 0, r)
    /\ GeoFrame

NextGeometry ==
    \/ BeginGeometry
    \/ AddFillVertex
    \/ AddStrokeVertex
    \/ AddTriangle
    \/ EndGeometry
    \/ AbortGeometry

SpecGeometry == InitGeometry /\ [][NextGeometry]_vars

\* ------------------------------------------------------------------ properties
\* The last call returned (and so did every call before it).
Done == last.out = "ok"

\* Every call so far returned, and the last one built or changed the kernel:
\* the states in which a caller can go on to examine the kernel.
Settled == Done /\ last.op \notin Accessors

EdgeIds(k) == 1..Len(k.edges)
FaceIds(k) == 1..Len(k.faces)

\* The kernel was built by from_loop, add_hole with n_vertices >= 3 and
\* split_face only, the last call included.
NoSplitEdge == "split_edge" \notin (used \cup Tags(last))
NoHole == "add_hole" \notin (used \cup Tags(last))
NoSmallHole == "small_hole" \notin (used \cup Tags(last))

\* The half-edges a walk of the face yields, as a set, and how many
Boundary(k, f) == {WalkFace(k, f).items[i] : i \in 1..Len(WalkFace(k, f).items)}
BoundarySize(k, f) == Len(WalkFace(k, f).items)

\* The half-edges from `from` forward (via next) up to and including `to`
RECURSIVE Forward(_, _, _, _)
Forward(k, from, to, fuel) ==
    IF from = to \/ fuel = 0 \/ ~EdgeOk(k, from) THEN {from}
    ELSE {from} \cup Forward(k, edge(k, from).next, to, fuel - 1)

\* C1: after from_loop(n) and any sequence of completed add_hole, split_edge
\* and split_face calls, every half-edge e has e.opposite.opposite == e,
\* e.next.prev == e and e.prev.next == e.
C1_TwinAndRingSymmetry ==
    Done =>
        \A e \in EdgeIds(Kernel) :
            /\ EdgeOk(Kernel, edge(Kernel, e).opposite)
            /\ EdgeOk(Kernel, edge(Kernel, e).next)
            /\ EdgeOk(Kernel, edge(Kernel, e).prev)
            /\ edge(Kernel, edge(Kernel, e).opposite).opposite = e
            /\ edge(Kernel, edge(Kernel, e).next).prev = e
            /\ edge(Kernel, edge(Kernel, e).prev).next = e

\* C2: after from_loop(n) and any sequence of completed add_hole, split_edge
\* and split_face calls, every half-edge e has
\* e.vertex == e.opposite.next.vertex and e.face == e.next.face == e.prev.face.
C2_OriginAndFaceAgreement ==
    Done =>
        \A e \in EdgeIds(Kernel) :
            /\ EdgeOk(Kernel, edge(Kernel, e).opposite)
            /\ EdgeOk(Kernel, edge(Kernel, e).next)
            /\ EdgeOk(Kernel, edge(Kernel, e).prev)
            /\ EdgeOk(Kernel, edge(Kernel, edge(Kernel, e).opposite).next)
            /\ edge(Kernel, e).vertex =
                   edge(Kernel, edge(Kernel, edge(Kernel, e).opposite).next).vertex
            /\ edge(Kernel, e).face = edge(Kernel, edge(Kernel, e).next).face
            /\ edge(Kernel, e).face = edge(Kernel, edge(Kernel, e).prev).face

\* C3: for every n in 3..9, from_loop(n) gives a main face (handle 1) with
\* exactly n boundary edges, by count_edges_around_face and by the walk, and
\* the face across the main face's first_edge is another face with exactly n
\* boundary edges, all of which carry that face.
BackFace(k) == edge(k, edge(k, face(k, first_face).first_edge).opposite).face

C3_FromLoopFaces ==
    (last.op = "from_loop" /\ last.a \in MinLoop..TestLoops) =>
        /\ count_edges_around_face(Kernel, first_face) = [out |-> "ok", count |-> last.a]
        /\ WalkFace(Kernel, first_face).out = "ok"
        /\ BoundarySize(Kernel, first_face) = last.a
        /\ BackFace(Kernel) # first_face
        /\ count_edges_around_face(Kernel, BackFace(Kernel)) =
               [out |-> "ok", count |-> last.a]
        /\ WalkFace(Kernel, BackFace(Kernel)).out = "ok"
        /\ BoundarySize(Kernel, BackFace(Kernel)) = last.a
        /\ \A e \in Boundary(Kernel, BackFace(Kernel)) :
               edge(Kernel, e).face = BackFace(Kernel)

C3_Witness ==
    /\ last.op = "from_loop"
    /\ last.a = TestLoops
    /\ Len(edges) = 2 * TestLoops
    /\ BoundarySize(Kernel, first_face) = TestLoops

\* What the last call, a split_face that returned, was given and found
SplitFaceReturned == last.op = "split_face" /\ Done
SplitA == last.a
SplitB == last.b
OldAPrev == edge(pre, SplitA).prev
OldBPrev == edge(pre, SplitB).prev
OldFace == edge(pre, OldAPrev).face
NewFace == last.ret

\* C4: whenever split_face(a, b) returns new face g after splitting face f
\* whose boundary ring had k half-edges, the boundary of f and the boundary
\* of g have k + 2 half-edges together. (Stated here for kernels built
\* without split_edge and with holes of at least 3 vertices only.)
C4_SplitFaceCountSum ==
    (SplitFaceReturned /\ NoSplitEdge /\ NoSmallHole) =>
        BoundarySize(Kernel, OldFace) + BoundarySize(Kernel, NewFace)
            = BoundarySize(pre, OldFace) + 2

\* C5: in a kernel built by from_loop and completed split_face calls only,
\* after split_face(a, b) returns g for original face f: every edge the walk
\* of f yields has face f, every edge the walk of g yields has face g, the
\* old edges from a forward up to the old b.prev have face g, and the old
\* edges from b forward up to the old a.prev have face f.
C5_SplitFaceLabels ==
    (SplitFaceReturned /\ NoSplitEdge /\ NoHole) =>
        /\ WalkFace(Kernel, OldFace).out = "ok"
        /\ WalkFace(Kernel, NewFace).out = "ok"
        /\ \A e \in Boundary(Kernel, OldFace) : edge(Kernel, e).face = OldFace
        /\ \A e \in Boundary(Kernel, NewFace) : edge(Kernel, e).face = NewFace
        /\ \A e \in Forward(pre, SplitA, OldBPrev, Len(pre.edges)) :
               edge(Kernel, e).face = NewFace
        /\ \A e \in Forward(pre, SplitB, OldAPrev, Len(pre.edges)) :
               edge(Kernel, e).face = OldFace

\* a second split, of a face a first split has made
C5_Witness ==
    /\ SplitFaceReturned /\ NoSplitEdge /\ NoHole
    /\ "split_face" \in used
    /\ OldFace > 2
    /\ BoundarySize(Kernel, NewFace) >= 3
    /\ BoundarySize(Kernel, OldFace) >= 3

\* C6: when split_face(a, b) returns g: g is a new face handle other than f;
\* f.first_edge is the new half-edge n with n.vertex == old a.vertex,
\* n.face == f, n.prev == a_prev, n.next == b, a_prev.next == n, b.prev == n;
\* g.first_edge is the new half-edge o with o.vertex == old b.vertex,
\* o.face == g, o.prev == b_prev, o.next == a, b_prev.next == o, a.prev == o;
\* n.opposite == o and o.opposite == n. (Stated here for kernels built
\* without split_edge and with holes of at least 3 vertices only.)
C6_SplitFaceLinks ==
    (SplitFaceReturned /\ NoSplitEdge /\ NoSmallHole) =>
        LET n == face(Kernel, OldFace).first_edge
            o == face(Kernel, NewFace).first_edge
        IN
        /\ NewFace = Len(pre.faces) + 1
        /\ NewFace # OldFace
        /\ n = Len(pre.edges) + 1
        /\ o = Len(pre.edges) + 2
        /\ edge(Kernel, n).vertex = edge(pre, SplitA).vertex
        /\ edge(Kernel, n).face = OldFace
        /\ edge(Kernel, n).prev = OldAPrev
        /\ edge(Kernel, n).next = SplitB
        /\ edge(Kernel, OldAPrev).next = n
        /\ edge(Kernel, SplitB).prev = n
        /\ edge(Kernel, o).vertex = edge(pre, SplitB).vertex
        /\ edge(Kernel, o).face = NewFace
        /\ edge(Kernel, o).prev = OldBPrev
        /\ edge(Kernel, o).next = SplitA
        /\ edge(Kernel, OldBPrev).next = o
        /\ edge(Kernel, SplitA).prev = o
        /\ edge(Kernel, n).opposite = o
        /\ edge(Kernel, o).opposite = n

\* C7: split_face(a, b) aborts with a fatal assertion, with no array grown
\* and no vertex, half-edge or face record changed, whenever a.prev and
\* b.prev bound different faces, or a.next == b, or a.prev == b.
SplitFaceRefused ==
    /\ last.op = "split_face"
    /\ EdgeOk(pre, SplitA) /\ EdgeOk(pre, SplitB)
    /\ \/ edge(pre, OldAPrev).face # edge(pre, OldBPrev).face
       \/ edge(pre, SplitA).next = SplitB
       \/ OldAPrev = SplitB

C7_SplitFaceRefusal ==
    SplitFaceRefused => (last.out = "panic" /\ Kernel = pre)

\* a.prev == b on a face whose ring passes the invariant walk, so that the
\* third precondition assert is the one that fires
C7_Witness ==
    /\ SplitFaceRefused
    /\ OldAPrev = SplitB
    /\ edge(pre, SplitA).next # SplitB
    /\ assert_face_invariants(pre, OldFace) = "ok"
    /\ last.out = "panic"
    /\ nops > 1

\* What the last call, a split_edge that returned, was given
SplitEdgeReturned == last.op = "split_edge" /\ Done
SplitE == last.a
OldTwin == edge(pre, SplitE).opposite

\* C8: for a half-edge e of a kernel built by from_loop, add_hole and
\* split_face, after split_edge(e) the face of e and the face of e.opposite
\* each have exactly one more boundary edge than before, and every other
\* face has as many as before.
C8_SplitEdgeCounts ==
    (SplitEdgeReturned /\ "split_edge" \notin used /\ NoSmallHole) =>
        \A f \in FaceIds(pre) :
            /\ count_edges_around_face(Kernel, f).out = "ok"
            /\ count_edges_around_face(Kernel, f).count =
                   count_edges_around_face(pre, f).count
                   + (IF f \in {edge(pre, SplitE).face, edge(pre, OldTwin).face}
                      THEN 1 ELSE 0)

\* C9: split_edge(e) returns the handle v of the vertex record it appended
\* (old vertex count + 1), and the half-edge v.first_edge names has v as its
\* vertex (origin).
C9_SplitEdgeAnchorsNewVertex ==
    SplitEdgeReturned =>
        /\ last.ret = Len(pre.vertices) + 1
        /\ Len(vertices) = Len(pre.vertices) + 1
        /\ EdgeOk(Kernel, vertex(Kernel, last.ret).first_edge)
        /\ edge(Kernel, vertex(Kernel, last.ret).first_edge).vertex = last.ret

\* C10: after split_edge(e) on a kernel with E half-edges, t the old
\* e.opposite: e.next and t.next are the two records the call appended
\* (handles E+1 and E+2), the record at e.next originates at the new vertex
\* and has e's face, the record at t.next originates at the new vertex and
\* has t's face, and e.vertex is the new vertex.
C10_SplitEdgeContinuations ==
    SplitEdgeReturned =>
        /\ edge(Kernel, SplitE).next = Len(pre.edges) + 1
        /\ edge(Kernel, OldTwin).next = Len(pre.edges) + 2
        /\ edge(Kernel, edge(Kernel, SplitE).next).vertex = last.ret
        /\ edge(Kernel, edge(Kernel, SplitE).next).face = edge(Kernel, SplitE).face
        /\ edge(Kernel, edge(Kernel, OldTwin).next).vertex = last.ret
        /\ edge(Kernel, edge(Kernel, OldTwin).next).face = edge(Kernel, OldTwin).face
        /\ edge(Kernel, SplitE).vertex = last.ret

\* C11: split_edge appends exactly one vertex record and exactly two
\* half-edge records, appends no face record, changes no face record, leaves
\* the vertex records it found as they were, and does not change the face
\* field of any half-edge that existed before the call.
C11_SplitEdgeFrame ==
    SplitEdgeReturned =>
        /\ Len(vertices) = Len(pre.vertices) + 1
        /\ SubSeq(vertices, 1, Len(pre.vertices)) = pre.vertices
        /\ Len(edges) = Len(pre.edges) + 2
        /\ faces = pre.faces
        /\ \A e \in EdgeIds(pre) : edge(Kernel, e).face = edge(pre, e).face

\* a half-edge of a hole's ring is split, in a kernel of three faces
C11_Witness ==
    /\ SplitEdgeReturned
    /\ Len(pre.faces) = 3
    /\ edge(pre, SplitE).face = 3
    /\ Len(edges) = Len(pre.edges) + 2

\* The faces reached from face f by first_interrior and then next_sibling
\* links, in the order reached: [out, items]. out is "panic" when a link is
\* no face record, "hang" when more faces were reached than there are.
RECURSIVE SiblingChain(_, _, _, _)
SiblingChain(k, h, acc, fuel) ==
    IF h = no_face THEN [out |-> "ok", items |-> acc]
    ELSE IF ~FaceOk(k, h) THEN [out |-> "panic", items |-> acc]
    ELSE IF fuel = 0 THEN [out |-> "hang", items |-> acc]
    ELSE SiblingChain(k, face(k, h).next_sibling, Append(acc, h), fuel - 1)

HoleList(k, f) == SiblingChain(k, face(k, f).first_interrior, <<>>, Len(k.faces))

\* The faces add_hole(f, _) has returned, most recent first
RECURSIVE HolesMade(_, _)
HolesMade(h, f) ==
    IF h = <<>> THEN <<>>
    ELSE IF Head(h).face = f THEN Append(HolesMade(Tail(h), f), Head(h).hole)
    ELSE HolesMade(Tail(h), f)

\* C12: after any sequence of completed calls, for every face f, following
\* f.first_interrior and then next_sibling links reaches no_face after
\* finitely many steps and visits exactly the faces add_hole(f, _) returned,
\* each once, most recently added first; and add_hole(f, n) makes the new
\* hole the head of f's list and the previous head its next_sibling.
C12_HoleList ==
    Done =>
        /\ \A f \in FaceIds(Kernel) :
               HoleList(Kernel, f) = [out |-> "ok", items |-> HolesMade(made, f)]
        /\ last.op = "add_hole" =>
               /\ face(Kernel, last.a).first_interrior = last.ret
               /\ face(Kernel, last.ret).next_sibling =
                      face(pre, last.a).first_interrior

\* a second hole is added to a face split_face has cut since the first
C12_Witness ==
    /\ Done
    /\ last.op = "add_hole"
    /\ "split_face" \in used
    /\ Len(HolesMade(made, last.a)) = 2
    /\ face(Kernel, last.ret).next_sibling # no_face

\* What the last call, an add_hole that returned, was given and returned
AddHoleReturned == last.op = "add_hole" /\ Done
HoleParent == last.a
HoleSize == last.b
HoleFace == last.ret
\* the opposites of the half-edges the walk of the hole face yields
HoleTwins == {edge(Kernel, e).opposite : e \in Boundary(Kernel, HoleFace)}

\* C13: add_hole(f, n) with n >= 3 returns a newly allocated face h whose
\* first_edge heads a ring of exactly n new half-edges all with face == h;
\* the n twin half-edges form a second closed ring with face == f; and
\* f.first_edge and the sequence yielded by walk_edges_around_face(f) are
\* the same as before the call.
C13_AddHoleRings ==
    (AddHoleReturned /\ HoleSize >= MinLoop) =>
        /\ HoleFace = Len(pre.faces) + 1
        /\ Len(faces) = Len(pre.faces) + 1
        /\ WalkFace(Kernel, HoleFace).out = "ok"
        /\ BoundarySize(Kernel, HoleFace) = HoleSize
        /\ Cardinality(Boundary(Kernel, HoleFace)) = HoleSize
        /\ \A e \in Boundary(Kernel, HoleFace) :
               /\ e > Len(pre.edges)
               /\ edge(Kernel, e).face = HoleFace
        /\ Cardinality(HoleTwins) = HoleSize
        /\ HoleTwins \cap Boundary(Kernel, HoleFace) = {}
        /\ \A t \in HoleTwins :
               /\ t > Len(pre.edges) /\ t <= Len(edges)
               /\ edge(Kernel, t).face = HoleParent
               /\ edge(Kernel, t).next \in HoleTwins
               /\ edge(Kernel, edge(Kernel, t).next).prev = t
               /\ Forward(Kernel, t, edge(Kernel, t).prev, Len(edges)) = HoleTwins
        /\ face(Kernel, HoleParent).first_edge = face(pre, HoleParent).first_edge
        /\ WalkFace(Kernel, HoleParent) = WalkFace(pre, HoleParent)
        /\ WalkFace(pre, HoleParent).out = "ok"

\* a hole of three vertices in a face that has a hole already
C13_Witness ==
    /\ AddHoleReturned
    /\ HoleSize = MinLoop
    /\ Len(HolesMade(made, HoleParent)) = 2
    /\ BoundarySize(Kernel, HoleFace) = MinLoop
    /\ BoundarySize(Kernel, HoleParent) >= MinLoop

\* C14: add_hole(f, n) on a kernel with V vertices and E half-edges returns
\* a vertex range with count == n and first == handle V + 1 and an edge
\* range with count == 2n and first == handle E + 1, the lowest handles the
\* call created. (Stated here for n >= 3.)
C14_AddHoleRanges ==
    (AddHoleReturned /\ HoleSize >= MinLoop) =>
        /\ last.vrange.count = HoleSize
        /\ last.vrange.first = Index(Len(pre.vertices) + 1)
        /\ last.erange.count = 2 * HoleSize
        /\ last.erange.first = Index(Len(pre.edges) + 1)

\* The iterator after n calls of FaceEdgeIterator::next (a call that panics
\* leaves it where it was)
RECURSIVE Advance(_, _, _)
Advance(k, it, n) ==
    IF n = 0 THEN it ELSE Advance(k, FaceEdgeIterator_next(k, it).it, n - 1)

\* The half-edges of the next-cycle through e: from e.next forward up to e
Ring(k, e) == Forward(k, edge(k, e).next, e, Len(k.edges))

\* C15: in any state reachable by from_loop, add_hole and split_face, for
\* every face f the iterator walk_edges_around_face(f) yields f.first_edge
\* first, each later item is the next of the item before it, every
\* half-edge of that ring is yielded exactly once, the last item is
\* first_edge.prev, and every call after that returns None.
C15_ForwardWalk ==
    (Done /\ NoSplitEdge) =>
        \A f \in FaceIds(Kernel) :
            LET w == WalkFace(Kernel, f)
                first == face(Kernel, f).first_edge
                n == Len(w.items)
            IN
            /\ w.out = "ok"
            /\ n >= 1
            /\ w.items[1] = first
            /\ \A i \in 2..n : w.items[i] = edge(Kernel, w.items[i - 1]).next
            /\ \A i, j \in 1..n : w.items[i] = w.items[j] => i = j
            /\ Boundary(Kernel, f) = Ring(Kernel, first)
            /\ w.items[n] = edge(Kernel, first).prev
            /\ \A extra \in 0..2 :
                   LET s == FaceEdgeIterator_next(Kernel,
                                Advance(Kernel, walk_edges_around_face(Kernel, f),
                                        n + extra))
                   IN s.out = "ok" /\ ~s.some

\* split_face has cut a face that add_hole had given a hole
C15_Witness ==
    /\ Done /\ NoSplitEdge
    /\ last.op = "split_face"
    /\ "add_hole" \in used
    /\ \E f \in FaceIds(Kernel) : BoundarySize(Kernel, f) >= 5

\* C16: for every face f in every state reachable by from_loop followed by
\* any sequence of completed add_hole, split_edge and split_face calls, the
\* iterators walk_edges_around_face(f) and walk_edges_around_face_reverse(f)
\* are finite: each eventually returns None.
C16_WalksEnd ==
    Done =>
        \A f \in FaceIds(Kernel) :
            /\ WalkFace(Kernel, f).out # "hang"
            /\ WalkFaceReverse(Kernel, f).out # "hang"

Reverse(s) == [i \in 1..Len(s) |-> s[Len(s) + 1 - i]]

\* C17 as stated: for every face f in any state reachable by from_loop,
\* add_hole and split_face, the sequence walk_edges_around_face_reverse(f)
\* yields equals, element by element, the sequence walk_edges_around_face(f)
\* yields, reversed.
C17_ReverseIsReversed ==
    (Done /\ NoSplitEdge) =>
        \A f \in FaceIds(Kernel) :
            WalkFaceReverse(Kernel, f).items = Reverse(WalkFace(Kernel, f).items)

\* C17 amended: for every face f in any state reachable by from_loop,
\* add_hole and split_face, walk_edges_around_face_reverse(f) yields as many
\* items as walk_edges_around_face(f), the same first item (f.first_edge),
\* and after it the other items of the forward walk in reverse order.
C17_ReverseIsMirror ==
    (Done /\ NoSplitEdge) =>
        \A f \in FaceIds(Kernel) :
            LET w == WalkFace(Kernel, f)
                r == WalkFaceReverse(Kernel, f)
                n == Len(w.items)
            IN
            /\ w.out = "ok"
            /\ r.out = "ok"
            /\ Len(r.items) = n
            /\ r.items[1] = w.items[1]
            /\ r.items[1] = face(Kernel, f).first_edge
            /\ \A i \in 2..n : r.items[i] = w.items[n + 2 - i]

\* the reverse walk of a face of at least four half-edges that split_face
\* has just made
C17_Witness ==
    /\ SplitFaceReturned /\ NoSplitEdge
    /\ Len(WalkFaceReverse(Kernel, NewFace).items) >= 4
    /\ WalkFaceReverse(Kernel, NewFace).items # Reverse(WalkFace(Kernel, NewFace).items)

\* The id iterator of a kind that a kernel hands out, and the array it counts
IdsOf(kind, k) ==
    CASE kind = "vertex" -> vertex_ids(k)
      [] kind = "edge" -> edge_ids(k)
      [] kind = "face" -> face_ids(k)

UpTo(n) == [i \in 1..n |-> i]

\* C18: vertex_ids(), edge_ids() and face_ids() created when the array has
\* length L yield exactly the handles 1, 2, ..., L in ascending order and
\* then None; an iterator created before the last call yields the handles of
\* the array as it was then, whatever the call appended, and a fresh
\* iterator starts from handle 1 again.
C18_IdIterators ==
    Settled =>
    \A kind \in {"vertex", "edge", "face"} :
        LET now == DrainIds(kind, IdsOf(kind, Kernel), <<>>)
            before == DrainIds(kind, IdsOf(kind, pre), <<>>)
        IN
        /\ now.items = UpTo(Len(ArrayOf(kind, Kernel)))
        /\ before.items = UpTo(Len(ArrayOf(kind, pre)))
        /\ ~IdIterator_next(kind, now.it).some
        /\ IdIterator_next(kind, now.it).it = now.it
        /\ ~IdIterator_next(kind, before.it).some
        /\ IdsOf(kind, Kernel).current = 1

\* add_hole has just appended vertices, half-edges and a face
C18_Witness ==
    /\ AddHoleReturned
    /\ \A kind \in {"vertex", "edge", "face"} :
           /\ Len(ArrayOf(kind, Kernel)) > Len(ArrayOf(kind, pre))
           /\ Len(DrainIds(kind, IdsOf(kind, Kernel), <<>>).items)
                  > Len(DrainIds(kind, IdsOf(kind, pre), <<>>).items)

\* C19: across every call (add_hole, split_edge, split_face, whether it
\* returns or aborts), the vertex, half-edge and face arrays are at least as
\* long after the call as before it, so every handle that indexed a record
\* before the call indexes a record after it.
C19_ArraysOnlyGrow ==
    /\ Len(vertices) >= Len(pre.vertices)
    /\ Len(edges) >= Len(pre.edges)
    /\ Len(faces) >= Len(pre.faces)
    /\ \A id \in 0..(Len(pre.edges) + 1) :
           /\ EdgeOk(pre, id) => EdgeOk(Kernel, id)
           /\ VertexOk(pre, id) => VertexOk(Kernel, id)
           /\ FaceOk(pre, id) => FaceOk(Kernel, id)

\* a split_face that aborted after it had pushed its two half-edges
C19_Witness ==
    /\ last.op = "split_face"
    /\ last.out = "panic"
    /\ Len(edges) = Len(pre.edges) + 2
    /\ Len(faces) = Len(pre.faces) + 1
    /\ "add_hole" \in used

\* What the last call, of an accessor, was given
AccessMade == last.op \in Accessors
AccessId == last.a

\* C20: vertex(id), edge(id) and face(id) called with the sentinel handle
\* (raw value 0) or with a handle greater than the current array length
\* abort instead of returning a record, and every accessor call leaves the
\* kernel unchanged; is_valid() is false exactly for the sentinel.
C20_AccessorsRefuse ==
    AccessMade =>
        /\ (AccessId = 0 \/ AccessId > Len(ArrayOf(last.op, pre))) =>
               last.out = "panic"
        /\ Kernel = pre
        /\ ~is_valid(AccessId) <=> AccessId \in {no_vertex, no_edge, no_face}
        /\ ~is_valid(AccessId) => last.out = "panic"

\* edge() is given the handle one past the half-edge array of a kernel that
\* two calls have grown
C20_Witness ==
    /\ AccessMade
    /\ last.op = "edge"
    /\ AccessId = Len(edges) + 1
    /\ last.out = "panic"
    /\ nops = 3
    /\ Len(edges) > 6

\* C21: join_vertices, merge_vertices, extrude_edge and extrude_face abort
\* on every call, for every argument and in every kernel state, and leave
\* every vertex, half-edge and face record and every array length as it was.
C21_NotImplementedAborts ==
    last.op \in NotImplemented => (last.out = "panic" /\ Kernel = pre)

\* extrude_face(f, true) on a kernel that add_hole and split_face have grown
C21_Witness ==
    /\ last.op = "extrude_face"
    /\ last.b = 1
    /\ last.out = "panic"
    /\ "add_hole" \in used /\ "split_face" \in used
    /\ Len(edges) > 8

\* The handles a cursor at e is compared with: the sentinel, e itself, and
\* the half-edges e links to
Near(k, e) ==
    {no_edge, e} \cup
    (IF EdgeOk(k, e)
     THEN {edge(k, e).next, edge(k, e).prev, edge(k, e).opposite}
     ELSE {})

\* C22: two EdgeCirculators, and likewise two DirectedEdgeCirculators,
\* compare equal if and only if their current edge handles are equal,
\* whether the cursors were made by new() or by a step from another cursor;
\* the stored direction of a directed circulator takes no part in it.
C22_CirculatorEquality ==
    Settled =>
        \A e1 \in 0..Len(edges) : \A e2 \in Near(Kernel, e1) :
            /\ EdgeCirculator_eq(EdgeCirculator_new(e1), EdgeCirculator_new(e2))
                   <=> e1 = e2
            /\ EdgeCirculator_ne(EdgeCirculator_new(e1), EdgeCirculator_new(e2))
                   <=> e1 # e2
            /\ e1 # 0 =>
                   (EdgeCirculator_eq(EdgeCirculator_next(Kernel, EdgeCirculator_new(e1)).c,
                                      EdgeCirculator_new(e2))
                       <=> edge(Kernel, e1).next = e2)
            /\ \A d1, d2 \in Direction :
                   LET a == DirectedEdgeCirculator_new(e1, d1)
                       b == DirectedEdgeCirculator_new(e2, d2)
                   IN
                   /\ DirectedEdgeCirculator_eq(a, b) <=> e1 = e2
                   /\ DirectedEdgeCirculator_ne(a, b) <=> e1 # e2
                   /\ e1 # 0 =>
                          (DirectedEdgeCirculator_eq(
                               DirectedEdgeCirculator_next(Kernel, a).c, b)
                              <=> DirectedEdgeCirculator_next(Kernel, a).c.circulator.edge = e2)

\* in a kernel split_face has cut, a forward and a backward cursor that came
\* to the same half-edge from two sides compare equal
C22_Witness ==
    /\ Settled
    /\ last.op = "split_face"
    /\ \E e1, e2 \in EdgeIds(Kernel) :
           LET a == DirectedEdgeCirculator_next(Kernel,
                        DirectedEdgeCirculator_new(e1, Direction_Forward)).c
               b == DirectedEdgeCirculator_next(Kernel,
                        DirectedEdgeCirculator_new(e2, Direction_Backward)).c
           IN
           /\ e1 # e2
           /\ a.direction # b.direction
           /\ DirectedEdgeCirculator_eq(a, b)
           /\ ~DirectedEdgeCirculator_ne(a, b)

\* the cursor a step from e is expected to give: at edge to, direction d
StepTo(to, d) == [out |-> "ok", c |-> DirectedEdgeCirculator_new(to, d)]

\* C23: for a DirectedEdgeCirculator at edge e with stored direction d:
\* next() is at e.next when d is Forward and at e.prev when d is Backward;
\* prev() is at e.prev when d is Forward and at e.next when d is Backward;
\* advance(x) is at e.next when x is Forward and at e.prev when x is
\* Backward, whatever d is; each returns a new cursor with stored direction d.
C23_DirectedSteps ==
    Settled =>
        \A e \in EdgeIds(Kernel) : \A d \in Direction :
            LET c == DirectedEdgeCirculator_new(e, d)
                n == edge(Kernel, e).next
                p == edge(Kernel, e).prev
            IN
            /\ DirectedEdgeCirculator_next(Kernel, c) =
                   StepTo(IF d = Direction_Forward THEN n ELSE p, d)
            /\ DirectedEdgeCirculator_prev(Kernel, c) =
                   StepTo(IF d = Direction_Forward THEN p ELSE n, d)
            /\ \A x \in Direction :
                   DirectedEdgeCirculator_advance(Kernel, c, x) =
                       StepTo(IF x = Direction_Forward THEN n ELSE p, d)
            /\ c = DirectedEdgeCirculator_new(e, d)

\* a backward cursor is advanced forward on a ring of more than two
\* half-edges that split_face has made
C23_Witness ==
    /\ Settled
    /\ last.op = "split_face"
    /\ LET e == face(Kernel, NewFace).first_edge
           c == DirectedEdgeCirculator_new(e, Direction_Backward)
       IN
       /\ edge(Kernel, e).next # edge(Kernel, e).prev
       /\ DirectedEdgeCirculator_advance(Kernel, c, Direction_Forward).c.circulator.edge
              = edge(Kernel, e).next
       /\ DirectedEdgeCirculator_next(Kernel, c).c.circulator.edge
              = edge(Kernel, e).prev

\* The cursor after n calls of DirectedEdgeCirculator::next, it = it.next()
\* (a call that panics leaves the cursor it was made on)
RECURSIVE Circulate(_, _, _)
Circulate(k, c, n) ==
    IF n = 0 THEN c ELSE Circulate(k, DirectedEdgeCirculator_next(k, c).c, n - 1)

\* C24: in any state reachable by from_loop and completed split_face calls,
\* for each face with k boundary edges and for each of Forward and Backward,
\* a DirectedEdgeCirculator started at the face's first_edge compares equal
\* to its starting cursor again after exactly k next() steps and after no
\* smaller positive number of steps, and every edge it visits has face
\* equal to that face.
C24_CirculationReturns ==
    (Settled /\ NoSplitEdge /\ NoHole) =>
        \A f \in FaceIds(Kernel) : \A d \in Direction :
            LET start == DirectedEdgeCirculator_new(face(Kernel, f).first_edge, d)
                k == BoundarySize(Kernel, f)
            IN
            /\ k >= 1
            /\ DirectedEdgeCirculator_eq(Circulate(Kernel, start, k), start)
            /\ \A j \in 1..(k - 1) :
                   DirectedEdgeCirculator_ne(Circulate(Kernel, start, j), start)
            /\ \A j \in 0..k :
                   /\ EdgeOk(Kernel, Circulate(Kernel, start, j).circulator.edge)
                   /\ edge(Kernel, Circulate(Kernel, start, j).circulator.edge).face = f

\* from_loop(6) cut by split_face into two faces of four half-edges, walked
\* backward
C24_Witness ==
    /\ SplitFaceReturned /\ NoSplitEdge /\ NoHole
    /\ Len(pre.edges) = 12
    /\ BoundarySize(Kernel, OldFace) = 4
    /\ BoundarySize(Kernel, NewFace) = 4
    /\ LET start == DirectedEdgeCirculator_new(face(Kernel, NewFace).first_edge,
                                               Direction_Backward)
       IN
       /\ Circulate(Kernel, start, 1).circulator.edge
              = edge(Kernel, face(Kernel, NewFace).first_edge).prev
       /\ DirectedEdgeCirculator_eq(Circulate(Kernel, start, 4), start)

\* The half-edges met by applying next_edge_around_vertex again and again
\* from e until it gives e: [out, items], items starting with e. More steps
\* than there are half-edges without meeting e again: "hang".
RECURSIVE AroundVertex(_, _, _, _, _)
AroundVertex(k, e, cur, acc, fuel) ==
    LET r == next_edge_around_vertex(k, cur) IN
    IF r.out # "ok" THEN [out |-> r.out, items |-> Append(acc, cur)]
    ELSE IF r.ret = e THEN [out |-> "ok", items |-> Append(acc, cur)]
    ELSE IF fuel = 0 THEN [out |-> "hang", items |-> Append(acc, cur)]
    ELSE AroundVertex(k, e, r.ret, Append(acc, cur), fuel - 1)

Fan(k, e) == AroundVertex(k, e, e, <<>>, Len(k.edges))

\* C25: in any state reachable by from_loop, add_hole and split_face,
\* next_edge_around_vertex(e) returns e.opposite.next, that edge has the same
\* origin vertex as e, and applying next_edge_around_vertex repeatedly
\* starting from e returns to e after finitely many steps while visiting
\* only edges whose origin is e.vertex.
C25_NextEdgeAroundVertex ==
    (Settled /\ NoSplitEdge) =>
        \A e \in EdgeIds(Kernel) :
            LET r == next_edge_around_vertex(Kernel, e) IN
            /\ r.out = "ok"
            /\ r.ret = edge(Kernel, edge(Kernel, e).opposite).next
            /\ edge(Kernel, r.ret).vertex = edge(Kernel, e).vertex
            /\ Fan(Kernel, e).out = "ok"
            /\ \A i \in 1..Len(Fan(Kernel, e).items) :
                   edge(Kernel, Fan(Kernel, e).items[i]).vertex = edge(Kernel, e).vertex

\* after split_face three half-edges leave the vertex the cut starts from
C25_Witness ==
    /\ SplitFaceReturned /\ NoSplitEdge
    /\ Fan(Kernel, SplitA).out = "ok"
    /\ Len(Fan(Kernel, SplitA).items) = 3
    /\ next_edge_around_vertex(Kernel, SplitA).ret # SplitA

\* C26 as stated: the vertex circulator started with current edge == first
\* edge == e yields e first, each following item is next_edge_around_vertex
\* of the item before it, every yielded edge has the same origin vertex as
\* e, and it stops when the step returns to e.
C26_VertexWalkAroundOrigin ==
    (Settled /\ NoSplitEdge) =>
        \A e \in EdgeIds(Kernel) :
            LET w == WalkVertex(Kernel, e) IN
            /\ w.out = "ok"
            /\ w.items[1] = e
            /\ \A i \in 2..Len(w.items) :
                   w.items[i] = next_edge_around_vertex(Kernel, w.items[i - 1]).ret
            /\ \A i \in 1..Len(w.items) :
                   edge(Kernel, w.items[i]).vertex = edge(Kernel, e).vertex
            /\ next_edge_around_vertex(Kernel, w.items[Len(w.items)]).ret = e

\* the vertex a half-edge points to: the origin of its next
Target(k, e) == edge(k, edge(k, e).next).vertex

\* C26 amended: in any state reachable by from_loop, add_hole and
\* split_face, the vertex circulator started with current edge == first
\* edge == e yields e first, each following item is previous.next.opposite,
\* every yielded edge points to the vertex e points to, and it stops (None
\* from then on) when the step returns to e.
C26_VertexWalkIntoTarget ==
    (Settled /\ NoSplitEdge) =>
        \A e \in EdgeIds(Kernel) :
            LET w == WalkVertex(Kernel, e)
                n == Len(w.items)
            IN
            /\ w.out = "ok"
            /\ n >= 1
            /\ w.items[1] = e
            /\ \A i \in 2..n :
                   w.items[i] = edge(Kernel, edge(Kernel, w.items[i - 1]).next).opposite
            /\ \A i \in 1..n : Target(Kernel, w.items[i]) = Target(Kernel, e)
            /\ edge(Kernel, edge(Kernel, w.items[n]).next).opposite = e
            /\ ~VertexEdgeIterator_next(Kernel, w.it).some

\* three half-edges point to a vertex of a kernel with a hole that
\* split_face has cut
C26_Witness ==
    /\ SplitFaceReturned /\ NoSplitEdge
    /\ "add_hole" \in used
    /\ \E e \in EdgeIds(Kernel) :
           /\ Len(WalkVertex(Kernel, e).items) = 3
           /\ WalkVertex(Kernel, e).items[2] # next_edge_around_vertex(Kernel, e).ret

\* ------------------------------------------------------------------ all four
\* the four invariants of one half-edge
HalfEdgeInvariants(k, e) ==
    LET opposite == edge(k, e).opposite
        next == edge(k, e).next
        prev == edge(k, e).prev
    IN  /\ EdgeOk(k, opposite) /\ EdgeOk(k, next) /\ EdgeOk(k, prev)
        /\ edge(k, opposite).opposite = e
        /\ edge(k, next).prev = e
        /\ edge(k, prev).next = e
        /\ EdgeOk(k, edge(k, opposite).next)
        /\ edge(k, e).vertex = edge(k, edge(k, opposite).next).vertex
        /\ edge(k, e).face = edge(k, next).face
        /\ edge(k, e).face = edge(k, prev).face

\* C30: in every kernel built by from_loop(n), n >= 3, and add_hole(f, m),
\* m >= 3, and split_face calls that returned, without split_edge, every
\* half-edge satisfies all four invariants.
C30_InvariantsWithoutSplitEdge ==
    (Settled /\ NoSplitEdge /\ NoSmallHole) =>
        \A e \in EdgeIds(Kernel) : HalfEdgeInvariants(Kernel, e)

\* a split_face that joined the ring of a hole of three vertices to the ring
\* around it
C30_Witness ==
    /\ SplitFaceReturned
    /\ NoSplitEdge
    /\ NoSmallHole
    /\ "add_hole" \in used
    /\ edge(pre, SplitA).face = edge(pre, SplitB).face
    /\ SplitB \notin Ring(pre, SplitA)
    /\ \A e \in EdgeIds(Kernel) : HalfEdgeInvariants(Kernel, e)

\* ------------------------------------------------------------------ builders
Began == geo.begun.called

C28_AbortRestores ==
    (last.op = "abort_geometry" /\ IsBuffers /\ Began) =>
        LET fresh == BuffersBuilder_new(geo.b.buffers, geo.b.IndexType)
            begun == BuffersBuilder_begin_geometry(geo.b).b
        IN  /\ geo.b.buffers = geo.begun.buffers
            /\ begun = BuffersBuilder_begin_geometry(fresh).b
            /\ \A input \in Points(geo) :
                 LET r == BuffersBuilder_add_fill_vertex(begun, input)
                 IN  /\ r = BuffersBuilder_add_fill_vertex(BuffersBuilder_begin_geometry(fresh).b, input)
                     /\ r.ret = IF Len(geo.b.buffers.vertices) < max_index(geo.b.IndexType)
                                THEN Ok(0) ELSE Err("TooManyVertices")
                     /\ r.b.buffers.vertices = Append(geo.begun.buffers.vertices, new_vertex(input))
                     /\ BuffersBuilder_end_geometry(r.b).ret = [vertices |-> 1, indices |-> 0]

C28_Witness ==
    /\ last.op = "abort_geometry"
    /\ IsBuffers
    /\ Began
    /\ geo.begun.buffers.vertices # <<>>
    /\ geo.begun.buffers.indices # <<>>
    /\ Len(pre.buffers.vertices) > Len(geo.b.buffers.vertices)
    /\ Len(pre.buffers.indices) > Len(geo.b.buffers.indices)

\* vertices the buffers held at the most recent begin_geometry or, before
\* the first one, when the builder was made
Held == Len(geo.begun.buffers.vertices)

\* C29: on a BuffersBuilder over buffers that held P vertices at its
\* creation or most recent begin_geometry, the k-th vertex added since gets
\* VertexId k-1 and lies at position P + k-1 of the vertex buffer, and
\* add_triangle(a, b, c) appends a+P, b+P, c+P to the index buffer (for
\* a+P, b+P, c+P that the index type can hold).
C29_IdsAndIndices ==
    /\ (IsBuffers /\ last.op \in {"add_fill_vertex", "add_stroke_vertex"}
            /\ geo.begun.clean /\ last.ret.res = "Ok") =>
          /\ last.ret.id = geo.begun.vertices - 1
          /\ Len(geo.b.buffers.vertices) = Held + last.ret.id + 1
          /\ geo.b.buffers.vertices[Held + last.ret.id + 1] = new_vertex(last.a)
    /\ (IsBuffers /\ last.op = "add_triangle" /\ last.out = "ok"
            /\ \A i \in 1..3 : last.a[i] + Held <= max_index(geo.b.IndexType)) =>
          geo.b.buffers.indices =
              pre.buffers.indices \o <<last.a[1] + Held, last.a[2] + Held, last.a[3] + Held>>

C29_Witness ==
    /\ IsBuffers
    /\ last.op = "add_triangle"
    /\ last.out = "ok"
    /\ Began
    /\ Held = 2
    /\ geo.begun.vertices = 1
    /\ geo.begun.ids = <<Ok(0)>>

\* ------------------------------------------------------------------ hardening
\* C31: after from_loop and any add_hole and split_face calls that returned,
\* every half-edge the walk of a face yields carries that face; so does the
\* face's first_edge.
C31_WalkedEdgesCarryFace ==
    (Settled /\ NoSplitEdge) =>
        \A f \in FaceIds(Kernel) :
            /\ WalkFace(Kernel, f).out = "ok"
            /\ \A e \in Boundary(Kernel, f) : edge(Kernel, e).face = f
            /\ edge(Kernel, face(Kernel, f).first_edge).face = f

\* C32: in a kernel in which every half-edge satisfies the four invariants,
\* split_face(a, b) with a.prev and b.prev of one face, a.next # b and
\* a.prev # b (a = b included) returns; and a split_face that does not
\* return has left such a kernel as it found it.
C32_SplitFaceReturns ==
    (last.op = "split_face" /\ \A e \in EdgeIds(pre) : HalfEdgeInvariants(pre, e)) =>
        /\ SplitFacePre(pre, last.a, last.b) => last.out = "ok"
        /\ last.out # "ok" => Kernel = pre

\* C33: whenever split_face returns in a kernel built by from_loop, add_hole
\* and split_face, the walk of the original face and the walk of the new
\* face each yield at least three half-edges.
C33_NoDegenerateFace ==
    (SplitFaceReturned /\ NoSplitEdge) =>
        /\ WalkFace(Kernel, OldFace).out = "ok"
        /\ WalkFace(Kernel, NewFace).out = "ok"
        /\ BoundarySize(Kernel, OldFace) >= 3
        /\ BoundarySize(Kernel, NewFace) >= 3

\* a quadrilateral cut into two triangles
C33_Witness ==
    /\ SplitFaceReturned
    /\ NoSplitEdge
    /\ BoundarySize(pre, OldFace) = 4
    /\ BoundarySize(Kernel, OldFace) = 3
    /\ BoundarySize(Kernel, NewFace) = 3

\* C34: for every face of a kernel built by from_loop(n), n >= 3, and
\* add_hole and split_face calls that returned, count_edges_around_face
\* returns, and returns the number of half-edges the walk of the face yields.
C34_CountIsWalkLength ==
    (Settled /\ NoSplitEdge) =>
        \A f \in FaceIds(Kernel) :
            /\ WalkFace(Kernel, f).out = "ok"
            /\ count_edges_around_face(Kernel, f) =
                   [out |-> "ok", count |-> BoundarySize(Kernel, f)]

\* C35: after from_loop and any add_hole, split_edge and split_face calls
\* that returned, the first_edge of every vertex is a half-edge that starts
\* at that vertex.
C35_VertexAnchors ==
    Settled =>
        \A v \in 1..Len(vertices) :
            /\ EdgeOk(Kernel, vertex(Kernel, v).first_edge)
            /\ edge(Kernel, vertex(Kernel, v).first_edge).vertex = v

\* the half-edges of the ring, or the two rings, that a and b were on
SplitRing == {SplitA, SplitB} \cup Ring(pre, SplitA) \cup Ring(pre, SplitB)

\* C36: a split_face(a, b) that returned has appended one face record and two
\* half-edge records and no vertex record; it has changed no vertex record,
\* no opposite and no vertex of a half-edge that was there before, no field
\* of a half-edge outside the ring of a and b, and of the face records only
\* the first_edge of the original face.
C36_SplitFaceFrame ==
    SplitFaceReturned =>
        /\ Len(faces) = Len(pre.faces) + 1
        /\ Len(edges) = Len(pre.edges) + 2
        /\ vertices = pre.vertices
        /\ \A e \in EdgeIds(pre) :
             /\ edges[e].opposite = pre.edges[e].opposite
             /\ edges[e].vertex = pre.edges[e].vertex
             /\ e \notin SplitRing => edges[e] = pre.edges[e]
        /\ \A f \in FaceIds(pre) :
             /\ f # OldFace => faces[f] = pre.faces[f]
             /\ faces[f].first_interrior = pre.faces[f].first_interrior
             /\ faces[f].next_sibling = pre.faces[f].next_sibling

\* a split_face in a kernel that has a hole, whose ring it leaves alone
C36_Witness ==
    /\ SplitFaceReturned
    /\ NoSplitEdge
    /\ "add_hole" \in used
    /\ EdgeIds(pre) \ SplitRing # {}
    /\ \E e \in SplitRing : edges[e].face # pre.edges[e].face
    /\ faces[OldFace].first_edge # pre.faces[OldFace].first_edge

\* C37: after from_loop and any add_hole, split_edge and split_face calls
\* that returned, every handle stored in a record is live: next, prev and
\* opposite of every half-edge and first_edge of every vertex and face are
\* half-edges of the kernel, vertex and face of every half-edge are a
\* vertex and a face of it, and first_interrior and next_sibling of every
\* face are the sentinel or a face of it.
C37_HandlesAreLive ==
    Settled =>
        /\ \A e \in EdgeIds(Kernel) :
             /\ EdgeOk(Kernel, edges[e].next)
             /\ EdgeOk(Kernel, edges[e].prev)
             /\ EdgeOk(Kernel, edges[e].opposite)
             /\ VertexOk(Kernel, edges[e].vertex)
             /\ FaceOk(Kernel, edges[e].face)
        /\ \A v \in 1..Len(vertices) : EdgeOk(Kernel, vertices[v].first_edge)
        /\ \A f \in FaceIds(Kernel) :
             /\ EdgeOk(Kernel, faces[f].first_edge)
             /\ faces[f].first_interrior = no_face \/ FaceOk(Kernel, faces[f].first_interrior)
             /\ faces[f].next_sibling = no_face \/ FaceOk(Kernel, faces[f].next_sibling)

\* a split_edge after an add_hole and a split_face
C37_Witness ==
    /\ Settled
    /\ last.op = "split_edge"
    /\ {"add_hole", "split_face"} \subseteq used
    /\ VertexOk(Kernel, last.ret)
    /\ \E e \in EdgeIds(Kernel) : edges[e].vertex = last.ret

\* C38: in a kernel built by from_loop, add_hole and split_face, a
\* VertexEdgeIterator with current edge and first edge e returns None after
\* finitely many items, yields no half-edge twice, and returns None on every
\* call after the first None.
C38_VertexWalkEnds ==
    (Settled /\ NoSplitEdge) =>
        \A e \in EdgeIds(Kernel) :
            LET w == WalkVertex(Kernel, e)
                again == VertexEdgeIterator_next(Kernel, w.it)
            IN
            /\ w.out = "ok"
            /\ \A i, j \in 1..Len(w.items) : w.items[i] = w.items[j] => i = j
            /\ again.out = "ok" /\ ~again.some
            /\ again.it = w.it
            /\ ~VertexEdgeIterator_next(Kernel, again.it).some

\* an add_hole in a kernel where split_face has made a vertex that three
\* half-edges point to
C38_Witness ==
    /\ Settled /\ NoSplitEdge
    /\ last.op = "add_hole"
    /\ "split_face" \in used
    /\ \E e \in EdgeIds(Kernel) :
           /\ WalkVertex(Kernel, e).out = "ok"
           /\ Len(WalkVertex(Kernel, e).items) = 3
           /\ ~VertexEdgeIterator_next(Kernel, WalkVertex(Kernel, e).it).some

\* ------------------------------------------------------------------ too many
AddVertexMade == IsBuffers /\ last.op \in {"add_fill_vertex", "add_stroke_vertex"}

\* C39: add_fill_vertex and add_stroke_vertex of a BuffersBuilder return
\* Err(TooManyVertices) exactly when the vertex buffer would hold more than
\* max_index() vertices, and a call that returns Err leaves the vertex
\* buffer and the index buffer as they were.
C39_TooManyVertices ==
    AddVertexMade =>
        /\ last.ret.res = "TooManyVertices"
              <=> Len(pre.buffers.vertices) + 1 > max_index(pre.IndexType)
        /\ last.ret.res = "TooManyVertices" => geo.b.buffers = pre.buffers

====
